---- MODULE Spec2Model ----
(***************************************************************************)
(* Model of the wpexporter core: the WordPress REST client                 *)
(* (internal/api) and the brute-force scanner (internal/bruteforce).       *)
(*                                                                         *)
(* The specifications share the variables:                                 *)
(*   Spec         - Scanner.ScanForContent: the caller, the three per-kind *)
(*                  goroutines and their worker pools;                     *)
(*   SpecLive     - the same under the fairness of the Go scheduler;       *)
(*   SpecPool     - one of the three goroutines of ScanForContent on its   *)
(*                  own: scanPosts / scanPages / scanMedia with an         *)
(*                  arbitrary known-id map and site, then the store of its *)
(*                  list;                                                  *)
(*   SpecMerge    - ScanForContent with one worker per kind, followed by   *)
(*                  runExport appending its lists to the listed items;     *)
(*   SpecClient   - the sequential operations of the REST client           *)
(*                  (SpecClientLive: the paginated fetch against servers   *)
(*                  whose answers are fixed in advance, under fairness);   *)
(*   SpecRange    - Scanner.ScanSpecificRange;                             *)
(*   SpecBrute    - Client.BruteForceContent and the reader of its         *)
(*                  channels (SpecBruteLive: under fairness);              *)
(*   SpecExport   - the export command runExport with config.Validate and  *)
(*                  api.NewClient;                                         *)
(*   SpecDownload - Downloader.DownloadMedia and its workers               *)
(*                  (SpecDownloadLive: under fairness).                    *)
(***************************************************************************)
EXTENDS Integers, Sequences, FiniteSets, TLC

VARIABLES
    cfg,          \* config.Config: BruteForce, MaxID, Concurrent
    existing,     \* the caller's posts, pages and media, per kind the ids in list order: the arguments of ScanForContent
    existingIDs,  \* per kind, the map[int]bool of known ids
    server,       \* the remote site: per kind and id, the response of the single-item endpoint
    mpc,          \* position of the caller of ScanForContent
    kpc,          \* per kind, position of the goroutine running scanPosts/scanPages/scanMedia
    spawned,      \* per kind, workers started so far (wg.Add)
    nextID,       \* per kind, loop variable of the "send jobs" loop
    jobs,         \* per kind, content of the jobs channel
    closed,       \* per kind, whether the jobs channel is closed
    idle,         \* per kind, number of workers at "for id := range jobs"
    busy,         \* per kind and id, number of workers inside Get*ByID(id)
    exited,       \* per kind, number of workers that returned (wg.Done)
    found,        \* per kind, the slice foundPosts / foundPages / foundMedia (record ids)
    fetches,      \* per kind and id, number of single-item requests issued (the server's log)
    result,       \* the shared *ScanResult of ScanForContent
    loaded,       \* per kind, the value of result.Found read by "result.Found += len(...)"
    ret,          \* what ScanForContent returned
    crashed,      \* a goroutine panicked: the process is gone
    call,         \* REST client: the operation called and its arguments
    cpc,          \* REST client: position inside the operation
    page,         \* REST client: loop variable "page" of a paginated fetch
    allContent,   \* REST client: the slice a paginated fetch accumulates
    log,          \* REST client: the requests sent so far, each with the answer it got
    cret,         \* REST client: what the operation returned
    rcall,        \* ScanSpecificRange: its arguments contentType, startID, endID
    rpc,          \* ScanSpecificRange: position inside the function
    rid,          \* ScanSpecificRange: loop variable "id"
    rlist,        \* ScanSpecificRange: the slice posts / pages / media (record ids)
    rlog,         \* ScanSpecificRange: the ids requested so far, in request order
    rret,         \* ScanSpecificRange: what it returned
    bcall,        \* BruteForceContent: contentType, maxID, the capacities of its two channels,
                  \*   and whether the caller ranges over the found channel
    bpc,          \* BruteForceContent: position inside the function
    bid,          \* BruteForceContent: loop variable "id"
    bcontent,     \* BruteForceContent: the pointer held by the variable "content"
    foundCh,      \* the buffer of the found channel
    progressCh,   \* the buffer of the progress channel
    closes,       \* per channel, the number of close calls made on it
    received,     \* what the caller received from the found channel, in order
    ticks,        \* what the caller received from the progress channel, in order
    rangeDone,    \* the caller's "for item := range found" has ended
    bevents,      \* BruteForceContent: its fetches, sends, dropped ticks and closes, in order
    run,          \* runExport: its position, the configuration file and flags it was
                  \*   started with, cfg, the stages invoked so far, what it returned
    dl            \* Downloader.DownloadMedia: its position, the items, the files, the workers

scanVars == <<cfg, existing, existingIDs, server, mpc, kpc, spawned, nextID, jobs,
              closed, idle, busy, exited, found, fetches, result, loaded, ret, crashed>>

clientVars == <<call, cpc, page, allContent, log, cret>>

rangeVars == <<rcall, rpc, rid, rlist, rlog, rret>>

bruteVars == <<bcall, bpc, bid, bcontent, foundCh, progressCh, closes, received, ticks,
               rangeDone, bevents>>

vars == <<scanVars, clientVars, rangeVars, bruteVars, run, dl>>

\* What the scanner's steps leave alone, what the client's steps leave alone,
\* what the steps of ScanSpecificRange leave alone, and what the steps of
\* BruteForceContent and of its caller leave alone.
nonScanVars == <<clientVars, rangeVars, bruteVars, run, dl>>
nonClientVars == <<scanVars, rangeVars, bruteVars, run, dl>>
nonRangeVars == <<scanVars, clientVars, bruteVars, run, dl>>
nonBruteVars == <<scanVars, clientVars, rangeVars, run, dl>>
nonExportVars == <<scanVars, clientVars, rangeVars, bruteVars, dl>>
nonDownloadVars == <<scanVars, clientVars, rangeVars, bruteVars, run>>

(***************************************************************************)
(* Bounds                                                                  *)
(***************************************************************************)
MaxIDBound == 2        \* SpecPool: config.MaxID ranges over -1..MaxIDBound
MaxConcurrent == 2     \* SpecPool: config.Concurrent ranges over 0..MaxConcurrent
ScanMaxID == 1         \* Spec: config.MaxID ranges over -1..ScanMaxID
ScanConcurrent == 2    \* Spec: config.Concurrent ranges over 0..ScanConcurrent
LiveConcurrent == 1    \* SpecLive: config.Concurrent ranges over 0..LiveConcurrent

MaxBruteID == 2        \* SpecBrute: maxID ranges over -1..MaxBruteID
MaxChanCap == 1        \* SpecBrute: capacities of the found and the progress channel

LargerOf(a, b) == IF a > b THEN a ELSE b
LargestID == LargerOf(LargerOf(MaxIDBound, ScanMaxID), MaxBruteID)
IDs == 1..LargestID

Kinds == {"posts", "pages", "media"}

Range(s) == {s[i] : i \in DOMAIN s}

(***************************************************************************)
(* HTTP responses and JSON decoding                                        *)
(***************************************************************************)
NoError == "nil"

\* models.SiteInfo, by its name, its url and one of its other fields.
SiteInfo(name, description, url) == [Name |-> name, Description |-> description, URL |-> url]
ZeroSiteInfo == SiteInfo("", "", "")

\* A response body, by what encoding/json makes of it: a JSON object (with
\* the value of its "id" member and of the members models.SiteInfo reads), a
\* JSON array of items, the JSON null, or text that is not JSON.
ObjectBody(id) == [kind |-> "object", id |-> id, items |-> <<>>, site |-> ZeroSiteInfo]
SiteBody(info) == [kind |-> "object", id |-> 0, items |-> <<>>, site |-> info]
ArrayBody(items) == [kind |-> "array", id |-> 0, items |-> items, site |-> ZeroSiteInfo]
NullBody == [kind |-> "null", id |-> 0, items |-> <<>>, site |-> ZeroSiteInfo]
GarbageBody == [kind |-> "garbage", id |-> 0, items |-> <<>>, site |-> ZeroSiteInfo]

\* What resty's Get returns: a transport error, or a status and a body.
Response(status, body) == [neterr |-> FALSE, status |-> status, body |-> body]
NetworkError == [neterr |-> TRUE, status |-> 0, body |-> GarbageBody]

\* json.Unmarshal(body, &struct): an object fills the struct, null leaves
\* the zero value, anything else is an error.
UnmarshalObject(body) ==
    CASE body.kind = "object" -> [err |-> NoError, ID |-> body.id]
      [] body.kind = "null"   -> [err |-> NoError, ID |-> 0]
      [] OTHER                -> [err |-> "decode", ID |-> 0]

\* The result of Get*ByID: rec is {} for a nil pointer, {id} for a record.
NoRecord == {}

\* GetPostByID without the "StatusCode() == 404" branch.
GetPostByIDNo404(resp) ==
    IF resp.neterr THEN [rec |-> NoRecord, err |-> "transport"]
    ELSE IF resp.status # 200 THEN [rec |-> NoRecord, err |-> "status"]
    ELSE LET post == UnmarshalObject(resp.body)
         IN  IF post.err # NoError THEN [rec |-> NoRecord, err |-> "decode"]
             ELSE [rec |-> {post.ID}, err |-> NoError]

GetPostByID(resp) ==
    IF resp.neterr THEN [rec |-> NoRecord, err |-> "transport"]
    ELSE IF resp.status = 404 THEN [rec |-> NoRecord, err |-> NoError]
    ELSE IF resp.status # 200 THEN [rec |-> NoRecord, err |-> "status"]
    ELSE LET post == UnmarshalObject(resp.body)
         IN  IF post.err # NoError THEN [rec |-> NoRecord, err |-> "decode"]
             ELSE [rec |-> {post.ID}, err |-> NoError]

GetPageByID(resp) ==
    IF resp.neterr THEN [rec |-> NoRecord, err |-> "transport"]
    ELSE IF resp.status = 404 THEN [rec |-> NoRecord, err |-> NoError]
    ELSE IF resp.status # 200 THEN [rec |-> NoRecord, err |-> "status"]
    ELSE LET decoded == UnmarshalObject(resp.body)
         IN  IF decoded.err # NoError THEN [rec |-> NoRecord, err |-> "decode"]
             ELSE [rec |-> {decoded.ID}, err |-> NoError]

\* GetMediaByID without the "StatusCode() != 200" branch.
GetMediaByIDAnyStatus(resp) ==
    IF resp.neterr THEN [rec |-> NoRecord, err |-> "transport"]
    ELSE IF resp.status = 404 THEN [rec |-> NoRecord, err |-> NoError]
    ELSE LET media == UnmarshalObject(resp.body)
         IN  IF media.err # NoError THEN [rec |-> NoRecord, err |-> "decode"]
             ELSE [rec |-> {media.ID}, err |-> NoError]

GetMediaByID(resp) ==
    IF resp.neterr THEN [rec |-> NoRecord, err |-> "transport"]
    ELSE IF resp.status = 404 THEN [rec |-> NoRecord, err |-> NoError]
    ELSE IF resp.status # 200 THEN [rec |-> NoRecord, err |-> "status"]
    ELSE LET media == UnmarshalObject(resp.body)
         IN  IF media.err # NoError THEN [rec |-> NoRecord, err |-> "decode"]
             ELSE [rec |-> {media.ID}, err |-> NoError]

\* The single-item fetch a worker of kind k makes.
FetchByID(k, resp) ==
    CASE k = "posts" -> GetPostByID(resp)
      [] k = "pages" -> GetPageByID(resp)
      [] k = "media" -> GetMediaByID(resp)

(***************************************************************************)
(* The remote site as the scanner sees it                                  *)
(***************************************************************************)
\* The answers of a single-item endpoint for id: the record, 404, a server
\* error, a dropped connection, or a 200 whose body is not JSON.
ItemResponses(id) ==
    { Response(200, ObjectBody(id)),
      Response(404, ObjectBody(0)),
      Response(500, GarbageBody),
      NetworkError,
      Response(200, GarbageBody) }

Sites == { s \in [IDs -> UNION {ItemResponses(i) : i \in IDs}] :
             \A i \in IDs : s[i] \in ItemResponses(i) }

\* The ids at which the site holds a record of kind k.
Holds(k) == { i \in IDs : server[k][i] = Response(200, ObjectBody(i)) }
\* The ids at which the single-item fetch of kind k ends in an error.
Fails(k) == { i \in IDs : FetchByID(k, server[k][i]).err # NoError }

(***************************************************************************)
(* Scanner.ScanForContent                                                  *)
(***************************************************************************)
EmptyResult == [Posts |-> <<>>, Pages |-> <<>>, Media |-> <<>>, Found |-> 0]

\* The pages goroutine storing into result.Posts.
StoreListSwapped(r, k, list) ==
    CASE k = "posts" -> [r EXCEPT !.Posts = list]
      [] k = "pages" -> [r EXCEPT !.Posts = list]
      [] k = "media" -> [r EXCEPT !.Media = list]

\* result.Posts = posts / result.Pages = pages / result.Media = media
StoreList(r, k, list) ==
    CASE k = "posts" -> [r EXCEPT !.Posts = list]
      [] k = "pages" -> [r EXCEPT !.Pages = list]
      [] k = "media" -> [r EXCEPT !.Media = list]

ListOf(r, k) ==
    CASE k = "posts" -> r.Posts
      [] k = "pages" -> r.Pages
      [] k = "media" -> r.Media

PoolIdle ==
    /\ spawned = [k \in Kinds |-> 0]
    /\ nextID = [k \in Kinds |-> 1]
    /\ jobs = [k \in Kinds |-> <<>>]
    /\ closed = [k \in Kinds |-> FALSE]
    /\ idle = [k \in Kinds |-> 0]
    /\ busy = [k \in Kinds |-> [i \in IDs |-> 0]]
    /\ exited = [k \in Kinds |-> 0]
    /\ found = [k \in Kinds |-> <<>>]
    /\ fetches = [k \in Kinds |-> [i \in IDs |-> 0]]
    /\ loaded = [k \in Kinds |-> 0]
    /\ crashed = FALSE

\* ScanForContent without the test of config.BruteForce.
ScanStartUnconditional ==
    /\ mpc = "call"
    /\ ~crashed
    /\ existingIDs' = [k \in Kinds |-> Range(existing[k])]
    /\ result' = EmptyResult
    /\ kpc' = [k \in Kinds |-> "make"]
    /\ mpc' = "wait"
    /\ UNCHANGED ret
    /\ UNCHANGED <<cfg, existing, server, spawned, nextID, jobs, closed, idle, busy,
                   exited, found, fetches, loaded, crashed>>
    /\ UNCHANGED nonScanVars

\* ScanForContent building one map of known ids for the three kinds.
ScanStartSharedIDs ==
    /\ mpc = "call"
    /\ ~crashed
    /\ IF ~cfg.BruteForce
       THEN /\ ret' = [result |-> EmptyResult, err |-> NoError]
            /\ mpc' = "returned"
            /\ UNCHANGED <<existingIDs, kpc, result>>
       ELSE /\ existingIDs' = [k \in Kinds |-> UNION {Range(existing[j]) : j \in Kinds}]
            /\ result' = EmptyResult
            /\ kpc' = [k \in Kinds |-> "make"]
            /\ mpc' = "wait"
            /\ UNCHANGED ret
    /\ UNCHANGED <<cfg, existing, server, spawned, nextID, jobs, closed, idle, busy,
                   exited, found, fetches, loaded, crashed>>
    /\ UNCHANGED nonScanVars

\* The caller enters ScanForContent: either brute force is off, or the known-id
\* maps are built and the three goroutines are started.
ScanStart ==
    /\ mpc = "call"
    /\ ~crashed
    /\ IF ~cfg.BruteForce
       THEN /\ ret' = [result |-> EmptyResult, err |-> NoError]
            /\ mpc' = "returned"
            /\ UNCHANGED <<existingIDs, kpc, result>>
       ELSE /\ existingIDs' = [k \in Kinds |-> Range(existing[k])]
            /\ result' = EmptyResult
            /\ kpc' = [k \in Kinds |-> "make"]
            /\ mpc' = "wait"
            /\ UNCHANGED ret
    /\ UNCHANGED <<cfg, existing, server, spawned, nextID, jobs, closed, idle, busy,
                   exited, found, fetches, loaded, crashed>>
    /\ UNCHANGED nonScanVars

\* scanX up to "jobs := make(chan int, s.config.MaxID)", which panics on a
\* negative capacity.
KindMakeChan(k) ==
    /\ kpc[k] = "make"
    /\ ~crashed
    /\ IF cfg.MaxID < 0
       THEN /\ crashed' = TRUE
            /\ UNCHANGED kpc
       ELSE /\ kpc' = [kpc EXCEPT ![k] = "spawn"]
            /\ UNCHANGED crashed
    /\ UNCHANGED <<cfg, existing, existingIDs, server, mpc, spawned, nextID, jobs, closed,
                   idle, busy, exited, found, fetches, result, loaded, ret>>
    /\ UNCHANGED nonScanVars

\* The start loop with "i <= s.config.Concurrent".
KindSpawnWorkerOneMore(k) ==
    /\ kpc[k] = "spawn"
    /\ ~crashed
    /\ spawned[k] <= cfg.Concurrent
    /\ spawned' = [spawned EXCEPT ![k] = @ + 1]
    /\ idle' = [idle EXCEPT ![k] = @ + 1]
    /\ UNCHANGED <<cfg, existing, existingIDs, server, mpc, kpc, nextID, jobs, closed,
                   busy, exited, found, fetches, result, loaded, ret, crashed>>
    /\ UNCHANGED nonScanVars

\* One iteration of "for i := 0; i < s.config.Concurrent; i++": wg.Add(1), go.
KindSpawnWorker(k) ==
    /\ kpc[k] = "spawn"
    /\ ~crashed
    /\ spawned[k] < cfg.Concurrent
    /\ spawned' = [spawned EXCEPT ![k] = @ + 1]
    /\ idle' = [idle EXCEPT ![k] = @ + 1]
    /\ UNCHANGED <<cfg, existing, existingIDs, server, mpc, kpc, nextID, jobs, closed,
                   busy, exited, found, fetches, result, loaded, ret, crashed>>
    /\ UNCHANGED nonScanVars

\* The send loop beginning with id := 2.
KindSpawnDoneSkipFirst(k) ==
    /\ kpc[k] = "spawn"
    /\ ~crashed
    /\ ~(spawned[k] < cfg.Concurrent)
    /\ kpc' = [kpc EXCEPT ![k] = "send"]
    /\ nextID' = [nextID EXCEPT ![k] = 2]
    /\ UNCHANGED <<cfg, existing, existingIDs, server, mpc, spawned, jobs, closed, idle,
                   busy, exited, found, fetches, result, loaded, ret, crashed>>
    /\ UNCHANGED nonScanVars

\* The start loop ends; the send loop begins with id := 1.
KindSpawnDone(k) ==
    /\ kpc[k] = "spawn"
    /\ ~crashed
    /\ ~(spawned[k] < cfg.Concurrent)
    /\ kpc' = [kpc EXCEPT ![k] = "send"]
    /\ nextID' = [nextID EXCEPT ![k] = 1]
    /\ UNCHANGED <<cfg, existing, existingIDs, server, mpc, spawned, jobs, closed, idle,
                   busy, exited, found, fetches, result, loaded, ret, crashed>>
    /\ UNCHANGED nonScanVars

\* "jobs <- id" on a channel made with one slot less than MaxID.
KindSendSmallerChannel(k) ==
    /\ kpc[k] = "send"
    /\ ~crashed
    /\ nextID[k] <= cfg.MaxID
    /\ Len(jobs[k]) < cfg.MaxID - 1
    /\ jobs' = [jobs EXCEPT ![k] = Append(@, nextID[k])]
    /\ nextID' = [nextID EXCEPT ![k] = @ + 1]
    /\ UNCHANGED <<cfg, existing, existingIDs, server, mpc, kpc, spawned, closed, idle,
                   busy, exited, found, fetches, result, loaded, ret, crashed>>
    /\ UNCHANGED nonScanVars

\* A send loop that leaves the known ids out of the channel.
KindSendUnknownOnly(k) ==
    /\ kpc[k] = "send"
    /\ ~crashed
    /\ nextID[k] <= cfg.MaxID
    /\ Len(jobs[k]) < cfg.MaxID
    /\ jobs' = [jobs EXCEPT ![k] = IF nextID[k] \in existingIDs[k] THEN @
                                   ELSE Append(@, nextID[k])]
    /\ nextID' = [nextID EXCEPT ![k] = @ + 1]
    /\ UNCHANGED <<cfg, existing, existingIDs, server, mpc, kpc, spawned, closed, idle,
                   busy, exited, found, fetches, result, loaded, ret, crashed>>
    /\ UNCHANGED nonScanVars

\* "jobs <- id": blocks while the channel holds MaxID ids.
KindSend(k) ==
    /\ kpc[k] = "send"
    /\ ~crashed
    /\ nextID[k] <= cfg.MaxID
    /\ Len(jobs[k]) < cfg.MaxID
    /\ jobs' = [jobs EXCEPT ![k] = Append(@, nextID[k])]
    /\ nextID' = [nextID EXCEPT ![k] = @ + 1]
    /\ UNCHANGED <<cfg, existing, existingIDs, server, mpc, kpc, spawned, closed, idle,
                   busy, exited, found, fetches, result, loaded, ret, crashed>>
    /\ UNCHANGED nonScanVars

\* The send loop ending without close(jobs).
KindCloseForgotten(k) ==
    /\ kpc[k] = "send"
    /\ ~crashed
    /\ ~(nextID[k] <= cfg.MaxID)
    /\ kpc' = [kpc EXCEPT ![k] = "wait"]
    /\ UNCHANGED <<cfg, existing, existingIDs, server, mpc, spawned, nextID, jobs, closed,
                   idle, busy, exited, found, fetches, result, loaded, ret, crashed>>
    /\ UNCHANGED nonScanVars

\* The send loop ends: close(jobs).
KindClose(k) ==
    /\ kpc[k] = "send"
    /\ ~crashed
    /\ ~(nextID[k] <= cfg.MaxID)
    /\ closed' = [closed EXCEPT ![k] = TRUE]
    /\ kpc' = [kpc EXCEPT ![k] = "wait"]
    /\ UNCHANGED <<cfg, existing, existingIDs, server, mpc, spawned, nextID, jobs, idle,
                   busy, exited, found, fetches, result, loaded, ret, crashed>>
    /\ UNCHANGED nonScanVars

\* scanX returning its slice without wg.Wait().
KindWaitNoBarrier(k) ==
    /\ kpc[k] = "wait"
    /\ ~crashed
    /\ kpc' = [kpc EXCEPT ![k] = "returned"]
    /\ UNCHANGED <<cfg, existing, existingIDs, server, mpc, spawned, nextID, jobs, closed,
                   idle, busy, exited, found, fetches, result, loaded, ret, crashed>>
    /\ UNCHANGED nonScanVars

\* wg.Wait() passes once every started worker called wg.Done; scanX returns
\* its slice.
KindWait(k) ==
    /\ kpc[k] = "wait"
    /\ ~crashed
    /\ exited[k] = spawned[k]
    /\ kpc' = [kpc EXCEPT ![k] = "returned"]
    /\ UNCHANGED <<cfg, existing, existingIDs, server, mpc, spawned, nextID, jobs, closed,
                   idle, busy, exited, found, fetches, result, loaded, ret, crashed>>
    /\ UNCHANGED nonScanVars

\* A worker that requests every id it receives, known or not.
WorkerReceiveAll(k) ==
    /\ ~crashed
    /\ idle[k] > 0
    /\ jobs[k] # <<>>
    /\ LET id == Head(jobs[k])
       IN  /\ jobs' = [jobs EXCEPT ![k] = Tail(@)]
           /\ busy' = [busy EXCEPT ![k][id] = @ + 1]
           /\ fetches' = [fetches EXCEPT ![k][id] = @ + 1]
           /\ idle' = [idle EXCEPT ![k] = @ - 1]
    /\ UNCHANGED <<cfg, existing, existingIDs, server, mpc, kpc, spawned, nextID, closed,
                   exited, found, result, loaded, ret, crashed>>
    /\ UNCHANGED nonScanVars

\* A worker receives the next id; a known id is skipped, for any other id the
\* request is issued.
WorkerReceive(k) ==
    /\ ~crashed
    /\ idle[k] > 0
    /\ jobs[k] # <<>>
    /\ LET id == Head(jobs[k])
       IN  /\ jobs' = [jobs EXCEPT ![k] = Tail(@)]
           /\ IF id \notin existingIDs[k]
              THEN /\ busy' = [busy EXCEPT ![k][id] = @ + 1]
                   /\ fetches' = [fetches EXCEPT ![k][id] = @ + 1]
                   /\ idle' = [idle EXCEPT ![k] = @ - 1]
              ELSE UNCHANGED <<busy, fetches, idle>>
    /\ UNCHANGED <<cfg, existing, existingIDs, server, mpc, kpc, spawned, nextID, closed,
                   exited, found, result, loaded, ret, crashed>>
    /\ UNCHANGED nonScanVars

\* The request for id returns and the record is put in front of the slice.
WorkerFetchReturnPrepend(k, id) ==
    /\ ~crashed
    /\ busy[k][id] > 0
    /\ LET r == FetchByID(k, server[k][id])
       IN  IF r.err = NoError /\ r.rec # NoRecord
           THEN found' = [found EXCEPT ![k] = <<CHOOSE x \in r.rec : TRUE>> \o @]
           ELSE UNCHANGED found
    /\ busy' = [busy EXCEPT ![k][id] = @ - 1]
    /\ idle' = [idle EXCEPT ![k] = @ + 1]
    /\ UNCHANGED <<cfg, existing, existingIDs, server, mpc, kpc, spawned, nextID, jobs,
                   closed, exited, fetches, result, loaded, ret, crashed>>
    /\ UNCHANGED nonScanVars

\* The request for id returns; a record is appended under the mutex, and the
\* worker goes back to the channel.
WorkerFetchReturn(k, id) ==
    /\ ~crashed
    /\ busy[k][id] > 0
    /\ LET r == FetchByID(k, server[k][id])
       IN  IF r.err = NoError /\ r.rec # NoRecord
           THEN found' = [found EXCEPT ![k] = Append(@, CHOOSE x \in r.rec : TRUE)]
           ELSE UNCHANGED found
    /\ busy' = [busy EXCEPT ![k][id] = @ - 1]
    /\ idle' = [idle EXCEPT ![k] = @ + 1]
    /\ UNCHANGED <<cfg, existing, existingIDs, server, mpc, kpc, spawned, nextID, jobs,
                   closed, exited, fetches, result, loaded, ret, crashed>>
    /\ UNCHANGED nonScanVars

\* A worker that returns as soon as it finds the channel empty, closed or not.
WorkerExitOnEmpty(k) ==
    /\ ~crashed
    /\ idle[k] > 0
    /\ jobs[k] = <<>>
    /\ idle' = [idle EXCEPT ![k] = @ - 1]
    /\ exited' = [exited EXCEPT ![k] = @ + 1]
    /\ UNCHANGED <<cfg, existing, existingIDs, server, mpc, kpc, spawned, nextID, jobs,
                   closed, busy, found, fetches, result, loaded, ret, crashed>>
    /\ UNCHANGED nonScanVars

\* "range jobs" ends on a closed, drained channel: the worker returns.
WorkerExit(k) ==
    /\ ~crashed
    /\ idle[k] > 0
    /\ jobs[k] = <<>>
    /\ closed[k]
    /\ idle' = [idle EXCEPT ![k] = @ - 1]
    /\ exited' = [exited EXCEPT ![k] = @ + 1]
    /\ UNCHANGED <<cfg, existing, existingIDs, server, mpc, kpc, spawned, nextID, jobs,
                   closed, busy, found, fetches, result, loaded, ret, crashed>>
    /\ UNCHANGED nonScanVars

\* A scanX that returns the items it was given together with those it found.
KindStoreResultWithExisting(k) ==
    /\ kpc[k] = "returned"
    /\ ~crashed
    /\ result' = StoreList(result, k, existing[k] \o found[k])
    /\ loaded' = [loaded EXCEPT ![k] = result.Found]
    /\ kpc' = [kpc EXCEPT ![k] = "add"]
    /\ UNCHANGED <<cfg, existing, existingIDs, server, mpc, spawned, nextID, jobs, closed,
                   idle, busy, exited, found, fetches, ret, crashed>>
    /\ UNCHANGED nonScanVars

\* The goroutine of kind k stores its list and reads result.Found, the first
\* half of "result.Found += len(posts)"; no lock is held.
KindStoreResult(k) ==
    /\ kpc[k] = "returned"
    /\ ~crashed
    /\ result' = StoreList(result, k, found[k])
    /\ loaded' = [loaded EXCEPT ![k] = result.Found]
    /\ kpc' = [kpc EXCEPT ![k] = "add"]
    /\ UNCHANGED <<cfg, existing, existingIDs, server, mpc, spawned, nextID, jobs, closed,
                   idle, busy, exited, found, fetches, ret, crashed>>
    /\ UNCHANGED nonScanVars

\* The second half of "result.Found += len(posts)": the sum is written back;
\* then the deferred wg.Done runs.
KindAddFound(k) ==
    /\ kpc[k] = "add"
    /\ ~crashed
    /\ result' = [result EXCEPT !.Found = loaded[k] + Len(found[k])]
    /\ kpc' = [kpc EXCEPT ![k] = "done"]
    /\ UNCHANGED <<cfg, existing, existingIDs, server, mpc, spawned, nextID, jobs, closed,
                   idle, busy, exited, found, fetches, loaded, ret, crashed>>
    /\ UNCHANGED nonScanVars

\* ScanForContent handing a failed fetch on to its caller.
ScanReturnFirstError ==
    /\ mpc = "wait"
    /\ ~crashed
    /\ \A k \in Kinds : kpc[k] = "done"
    /\ ret' = [result |-> result,
               err |-> IF \E k \in Kinds : \E i \in Fails(k) : fetches[k][i] > 0
                       THEN "fetch failed" ELSE NoError]
    /\ mpc' = "returned"
    /\ UNCHANGED <<cfg, existing, existingIDs, server, kpc, spawned, nextID, jobs, closed,
                   idle, busy, exited, found, fetches, result, loaded, crashed>>
    /\ UNCHANGED nonScanVars

\* wg.Wait() of ScanForContent passes; it returns result, nil.
ScanReturn ==
    /\ mpc = "wait"
    /\ ~crashed
    /\ \A k \in Kinds : kpc[k] = "done"
    /\ ret' = [result |-> result, err |-> NoError]
    /\ mpc' = "returned"
    /\ UNCHANGED <<cfg, existing, existingIDs, server, kpc, spawned, nextID, jobs, closed,
                   idle, busy, exited, found, fetches, result, loaded, crashed>>
    /\ UNCHANGED nonScanVars

PoolStep(k) ==
    \/ KindMakeChan(k)
    \/ KindSpawnWorker(k)
    \/ KindSpawnDone(k)
    \/ KindSend(k)
    \/ KindClose(k)
    \/ KindWait(k)
    \/ WorkerReceive(k)
    \/ \E id \in IDs : WorkerFetchReturn(k, id)
    \/ WorkerExit(k)

(***************************************************************************)
(* The REST client (api.Client)                                            *)
(***************************************************************************)
MaxPages == 3          \* SpecClient: a paginated fetch is followed for MaxPages pages
MaxPageLen == 1        \* SpecClient: number of items of a page
MaxItemID == 2         \* SpecClient: ids of the items and of the single-item requests

SiteURL == "https://example.com"
PlaceholderName == "WordPress Site"

Statuses == {200, 201, 400, 404, 500}

\* What the server may answer on a single-item endpoint.
ItemBodies == {ObjectBody(i) : i \in 0..MaxItemID} \cup {NullBody, GarbageBody, ArrayBody(<<>>)}
ItemAnswers == {NetworkError} \cup {Response(st, b) : st \in Statuses, b \in ItemBodies}

\* What the server may answer on a list endpoint.
PageLists == UNION { [1..n -> 1..MaxItemID] : n \in 0..MaxPageLen }
PageBodies == {ArrayBody(items) : items \in PageLists} \cup {NullBody, GarbageBody, ObjectBody(0)}
PageAnswers == {NetworkError} \cup {Response(st, b) : st \in Statuses, b \in PageBodies}

\* What the server may answer on the settings and on the root endpoint.
SiteBodies == { SiteBody(SiteInfo("My Blog", "a blog", "https://blog.example")),
                SiteBody(SiteInfo("", "", "")),
                NullBody, GarbageBody, ArrayBody(<<>>) }
SiteAnswers == {NetworkError} \cup {Response(st, b) : st \in Statuses, b \in SiteBodies}

\* json.Unmarshal(body, &slice): an array fills the slice, null leaves it
\* nil, anything else is an error.
UnmarshalList(body) ==
    CASE body.kind = "array" -> [err |-> NoError, items |-> body.items]
      [] body.kind = "null"  -> [err |-> NoError, items |-> <<>>]
      [] OTHER               -> [err |-> "decode", items |-> <<>>]

\* json.Unmarshal(body, &siteInfo)
UnmarshalSiteInfo(body) ==
    CASE body.kind = "object" -> [err |-> NoError, info |-> body.site]
      [] body.kind = "null"   -> [err |-> NoError, info |-> ZeroSiteInfo]
      [] OTHER                -> [err |-> "decode", info |-> ZeroSiteInfo]

\* A return value of the client; the fields an operation does not have stay
\* at their zero values. rec and info are {} for a nil pointer.
Returned(rec, items, info, err) == [rec |-> rec, items |-> items, info |-> info, err |-> err]
NothingReturned == Returned({}, <<>>, {}, NoError)

Request(endpoint, pg, answer) == [endpoint |-> endpoint, page |-> pg, answer |-> answer]

NoCall == [op |-> "none", target |-> "", id |-> 0]

ClientIdle ==
    /\ call = NoCall
    /\ cpc = "idle"
    /\ page = 1
    /\ allContent = <<>>
    /\ log = <<>>
    /\ cret = NothingReturned

\* GetPostByID / GetPageByID / GetMediaByID called for id; the server answers
\* with any of ItemAnswers.
GetByID(k, id) ==
    /\ cpc = "idle"
    /\ \E answer \in ItemAnswers :
          /\ log' = <<Request(k, id, answer)>>
          /\ LET r == FetchByID(k, answer)
             IN  cret' = Returned(r.rec, <<>>, {}, r.err)
    /\ call' = [op |-> "GetByID", target |-> k, id |-> id]
    /\ cpc' = "done"
    /\ UNCHANGED <<page, allContent>>
    /\ UNCHANGED nonClientVars

\* The list endpoints: GetPosts and GetPages go through getAllContent, the
\* other four repeat its loop.
Endpoints == {"posts", "pages", "media", "categories", "tags", "users"}

\* Entry of a paginated fetch: allContent is nil, page := 1.
getAllContentStart(endpoint) ==
    /\ cpc = "idle"
    /\ call' = [op |-> "GetAll", target |-> endpoint, id |-> 0]
    /\ page' = 1
    /\ allContent' = <<>>
    /\ cpc' = "paging"
    /\ UNCHANGED <<log, cret>>
    /\ UNCHANGED nonClientVars

\* The loop body returning nil instead of allContent on HTTP 400.
getAllContentBodyDropOn400(answer, acc, pg) ==
    IF answer.neterr
    THEN [cpc |-> "done", ret |-> Returned({}, <<>>, {}, "transport"), acc |-> acc, page |-> pg]
    ELSE IF answer.status = 400
    THEN [cpc |-> "done", ret |-> Returned({}, <<>>, {}, NoError), acc |-> acc, page |-> pg]
    ELSE IF answer.status # 200
    THEN [cpc |-> "done", ret |-> Returned({}, <<>>, {}, "status"), acc |-> acc, page |-> pg]
    ELSE LET content == UnmarshalList(answer.body)
         IN  IF content.err # NoError
             THEN [cpc |-> "done", ret |-> Returned({}, <<>>, {}, "decode"),
                   acc |-> acc, page |-> pg]
             ELSE IF Len(content.items) = 0
             THEN [cpc |-> "done", ret |-> Returned({}, acc, {}, NoError),
                   acc |-> acc, page |-> pg]
             ELSE [cpc |-> "paging", ret |-> NothingReturned,
                   acc |-> acc \o content.items, page |-> pg + 1]

\* The loop body returning the pages read so far together with a status error.
getAllContentBodyPartial(answer, acc, pg) ==
    IF answer.neterr
    THEN [cpc |-> "done", ret |-> Returned({}, <<>>, {}, "transport"), acc |-> acc, page |-> pg]
    ELSE IF answer.status = 400
    THEN [cpc |-> "done", ret |-> Returned({}, acc, {}, NoError), acc |-> acc, page |-> pg]
    ELSE IF answer.status # 200
    THEN [cpc |-> "done", ret |-> Returned({}, acc, {}, "status"), acc |-> acc, page |-> pg]
    ELSE LET content == UnmarshalList(answer.body)
         IN  IF content.err # NoError
             THEN [cpc |-> "done", ret |-> Returned({}, <<>>, {}, "decode"),
                   acc |-> acc, page |-> pg]
             ELSE IF Len(content.items) = 0
             THEN [cpc |-> "done", ret |-> Returned({}, acc, {}, NoError),
                   acc |-> acc, page |-> pg]
             ELSE [cpc |-> "paging", ret |-> NothingReturned,
                   acc |-> acc \o content.items, page |-> pg + 1]

\* The body of the loop of getAllContent for the answer to the request of
\* page pg, acc being allContent: return an error and nil, break and return
\* what was accumulated, or append the page and go on.
getAllContentBody(answer, acc, pg) ==
    IF answer.neterr
    THEN [cpc |-> "done", ret |-> Returned({}, <<>>, {}, "transport"), acc |-> acc, page |-> pg]
    ELSE IF answer.status = 400
    THEN [cpc |-> "done", ret |-> Returned({}, acc, {}, NoError), acc |-> acc, page |-> pg]
    ELSE IF answer.status # 200
    THEN [cpc |-> "done", ret |-> Returned({}, <<>>, {}, "status"), acc |-> acc, page |-> pg]
    ELSE LET content == UnmarshalList(answer.body)
         IN  IF content.err # NoError
             THEN [cpc |-> "done", ret |-> Returned({}, <<>>, {}, "decode"),
                   acc |-> acc, page |-> pg]
             ELSE IF Len(content.items) = 0
             THEN [cpc |-> "done", ret |-> Returned({}, acc, {}, NoError),
                   acc |-> acc, page |-> pg]
             ELSE [cpc |-> "paging", ret |-> NothingReturned,
                   acc |-> acc \o content.items, page |-> pg + 1]

\* perPage := 100
perPage == 100

\* The request "%s/%s?page=%d&per_page=%d" and its answer.
PageRequest(endpoint, pg, answer) ==
    [endpoint |-> endpoint, page |-> pg, perPage |-> perPage, answer |-> answer]

\* A loop that takes a page with fewer than perPage items for the last one
\* and returns without asking for the next.
getAllContentPageStopOnShortPage ==
    /\ cpc = "paging"
    /\ page <= MaxPages
    /\ \E answer \in PageAnswers :
          LET r == getAllContentBody(answer, allContent, page)
              short == r.cpc = "paging" /\ Len(r.acc) - Len(allContent) < perPage
          IN  /\ log' = Append(log, PageRequest(call.target, page, answer))
              /\ cpc' = IF short THEN "done" ELSE r.cpc
              /\ cret' = IF short THEN Returned({}, r.acc, {}, NoError) ELSE r.ret
              /\ allContent' = r.acc
              /\ page' = r.page
    /\ UNCHANGED call
    /\ UNCHANGED nonClientVars

\* One iteration of the loop: the request of the page, with per_page = 100,
\* gets any of PageAnswers.
getAllContentPage ==
    /\ cpc = "paging"
    /\ page <= MaxPages
    /\ \E answer \in PageAnswers :
          LET r == getAllContentBody(answer, allContent, page)
          IN  /\ log' = Append(log, PageRequest(call.target, page, answer))
              /\ cpc' = r.cpc
              /\ cret' = r.ret
              /\ allContent' = r.acc
              /\ page' = r.page
    /\ UNCHANGED call
    /\ UNCHANGED nonClientVars

\* A server whose answers are fixed in advance: what each page of a list
\* endpoint is answered with, one answer of every way the loop treats.
FeedAnswers == {NetworkError, Response(200, ArrayBody(<<1>>)), Response(200, ArrayBody(<<>>)),
                Response(400, NullBody), Response(500, NullBody), Response(200, GarbageBody)}
Feeds == [1..MaxPages -> FeedAnswers]

\* Entry of a paginated fetch against the server with the given answers.
getAllContentStartFeed(endpoint, feed) ==
    /\ cpc = "idle"
    /\ call' = [op |-> "GetAll", target |-> endpoint, id |-> 0, feed |-> feed]
    /\ page' = 1
    /\ allContent' = <<>>
    /\ cpc' = "paging"
    /\ UNCHANGED <<log, cret>>
    /\ UNCHANGED nonClientVars

\* A loop that gives up after its second page and returns what it has.
getAllContentFeedBounded ==
    /\ cpc = "paging"
    /\ page \in DOMAIN call.feed
    /\ LET r == getAllContentBody(call.feed[page], allContent, page)
           last == r.cpc = "paging" /\ page >= 2
       IN  /\ log' = Append(log, PageRequest(call.target, page, call.feed[page]))
           /\ cpc' = IF last THEN "done" ELSE r.cpc
           /\ cret' = IF last THEN Returned({}, r.acc, {}, NoError) ELSE r.ret
           /\ allContent' = r.acc
           /\ page' = r.page
    /\ UNCHANGED call
    /\ UNCHANGED nonClientVars

\* One iteration of the loop against that server: the request of the page
\* gets the answer the server has for it.  The loop has no other exit than
\* the body's: it asks for the next page as long as the server has one.
getAllContentFeed ==
    /\ cpc = "paging"
    /\ page \in DOMAIN call.feed
    /\ LET r == getAllContentBody(call.feed[page], allContent, page)
       IN  /\ log' = Append(log, PageRequest(call.target, page, call.feed[page]))
           /\ cpc' = r.cpc
           /\ cret' = r.ret
           /\ allContent' = r.acc
           /\ page' = r.page
    /\ UNCHANGED call
    /\ UNCHANGED nonClientVars

\* GetSiteInfo, given the answer of the settings endpoint and the answer the
\* root endpoint gives if asked: the requests made and the return value.
SiteInfoOf(settings, root) ==
    IF settings.neterr
    THEN [requests |-> <<Request("settings", 0, settings)>>,
          ret |-> Returned({}, <<>>, {}, "transport")]
    ELSE IF settings.status # 200 /\ root.neterr
    THEN [requests |-> <<Request("settings", 0, settings), Request("root", 0, root)>>,
          ret |-> Returned({}, <<>>, {}, "transport")]
    ELSE LET resp == IF settings.status # 200 THEN root ELSE settings
             requests == IF settings.status # 200
                         THEN <<Request("settings", 0, settings), Request("root", 0, root)>>
                         ELSE <<Request("settings", 0, settings)>>
             parsed == UnmarshalSiteInfo(resp.body)
             siteInfo == IF parsed.err # NoError
                         THEN SiteInfo(PlaceholderName, "", SiteURL)
                         ELSE parsed.info
         IN  [requests |-> requests, ret |-> Returned({}, <<>>, {siteInfo}, NoError)]

GetSiteInfo ==
    /\ cpc = "idle"
    /\ \E settings \in SiteAnswers, root \in SiteAnswers :
          LET r == SiteInfoOf(settings, root)
          IN  /\ log' = r.requests
              /\ cret' = r.ret
    /\ call' = [op |-> "GetSiteInfo", target |-> "", id |-> 0]
    /\ cpc' = "done"
    /\ UNCHANGED <<page, allContent>>
    /\ UNCHANGED nonClientVars

(***************************************************************************)
(* Scanner.ScanSpecificRange                                               *)
(***************************************************************************)
NoRange == [contentType |-> "", startID |-> 0, endID |-> 0]

\* The (interface{}, error) pair ScanSpecificRange returns: the nil interface,
\* or a slice of records.
RangeReturned(isnil, list, err) == [isnil |-> isnil, list |-> list, err |-> err]

RangeIdle ==
    /\ rcall = NoRange
    /\ rpc = "idle"
    /\ rid = 0
    /\ rlist = <<>>
    /\ rlog = <<>>
    /\ rret = RangeReturned(TRUE, <<>>, NoError)

\* The content types ScanSpecificRange is called with.
ContentTypes == Kinds \cup {"widgets", ""}

\* The default case returning an empty slice and a nil error.
RangeStartEmptyDefault(contentType, startID, endID) ==
    /\ rpc = "idle"
    /\ rcall' = [contentType |-> contentType, startID |-> startID, endID |-> endID]
    /\ IF contentType \in Kinds
       THEN /\ rid' = startID
            /\ rpc' = "loop"
            /\ UNCHANGED rret
       ELSE /\ rret' = RangeReturned(FALSE, <<>>, NoError)
            /\ rpc' = "returned"
            /\ UNCHANGED rid
    /\ UNCHANGED <<rlist, rlog>>
    /\ UNCHANGED nonRangeVars

\* Entry of ScanSpecificRange and its switch: a supported content type
\* enters its loop with id := startID, any other returns nil and an error.
RangeStart(contentType, startID, endID) ==
    /\ rpc = "idle"
    /\ rcall' = [contentType |-> contentType, startID |-> startID, endID |-> endID]
    /\ IF contentType \in Kinds
       THEN /\ rid' = startID
            /\ rpc' = "loop"
            /\ UNCHANGED rret
       ELSE /\ rret' = RangeReturned(TRUE, <<>>, "unsupported content type")
            /\ rpc' = "returned"
            /\ UNCHANGED rid
    /\ UNCHANGED <<rlist, rlog>>
    /\ UNCHANGED nonRangeVars

\* A loop body that leaves out the ids of the existing items.
RangeProbeSkipKnown ==
    /\ rpc = "loop"
    /\ rid <= rcall.endID
    /\ IF rid \in Range(existing[rcall.contentType])
       THEN UNCHANGED <<rlog, rlist>>
       ELSE LET r == FetchByID(rcall.contentType, server[rcall.contentType][rid])
            IN  /\ rlog' = Append(rlog, rid)
                /\ IF r.err = NoError /\ r.rec # NoRecord
                   THEN rlist' = Append(rlist, CHOOSE x \in r.rec : TRUE)
                   ELSE UNCHANGED rlist
    /\ rid' = rid + 1
    /\ UNCHANGED <<rcall, rpc, rret>>
    /\ UNCHANGED nonRangeVars

\* One iteration of "for id := startID; id <= endID; id++": the fetch of id
\* and the append of the record it returned, if any.
RangeProbe ==
    /\ rpc = "loop"
    /\ rid <= rcall.endID
    /\ LET r == FetchByID(rcall.contentType, server[rcall.contentType][rid])
       IN  /\ rlog' = Append(rlog, rid)
           /\ IF r.err = NoError /\ r.rec # NoRecord
              THEN rlist' = Append(rlist, CHOOSE x \in r.rec : TRUE)
              ELSE UNCHANGED rlist
    /\ rid' = rid + 1
    /\ UNCHANGED <<rcall, rpc, rret>>
    /\ UNCHANGED nonRangeVars

\* The loop ends: the slice is returned with a nil error.
RangeReturn ==
    /\ rpc = "loop"
    /\ ~(rid <= rcall.endID)
    /\ rret' = RangeReturned(FALSE, rlist, NoError)
    /\ rpc' = "returned"
    /\ UNCHANGED <<rcall, rid, rlist, rlog>>
    /\ UNCHANGED nonRangeVars

(***************************************************************************)
(* Client.BruteForceContent and the caller that reads its channels         *)
(***************************************************************************)
NoBruteCall == [contentType |-> "", maxID |-> 0, foundCap |-> 0, progressCap |-> 0,
                ranging |-> FALSE, listening |-> FALSE]

\* The calls made: the channels are made by the caller, who may or may not
\* range over the found channel and may or may not read the progress channel.
BruteCalls ==
    [contentType : Kinds \cup {"widgets"}, maxID : -1..MaxBruteID,
     foundCap : 0..MaxChanCap, progressCap : 0..MaxChanCap, ranging : BOOLEAN,
     listening : BOOLEAN]

\* An entry of the event log.
Event(ev, id, rec) == [ev |-> ev, id |-> id, rec |-> rec]

BruteIdle ==
    /\ bcall = NoBruteCall
    /\ bpc = "idle"
    /\ bid = 0
    /\ bcontent = {}
    /\ foundCh = <<>>
    /\ progressCh = <<>>
    /\ closes = [found |-> 0, progress |-> 0]
    /\ received = <<>>
    /\ ticks = <<>>
    /\ rangeDone = FALSE
    /\ bevents = <<>>

\* Entry of BruteForceContent: the two closes are deferred, id := 1.
BruteStart ==
    /\ bpc = "called"
    /\ bid' = 1
    /\ bpc' = "loop"
    /\ UNCHANGED <<bcall, bcontent, foundCh, progressCh, closes, received, ticks,
                   rangeDone, bevents>>
    /\ UNCHANGED nonBruteVars

\* A loop body that returns on the default case, the closes being the last
\* statements of the function instead of deferred.
BruteProbeReturnOnDefault ==
    /\ bpc = "loop"
    /\ bid <= bcall.maxID
    /\ IF bcall.contentType \notin Kinds
       THEN /\ bpc' = "done"
            /\ UNCHANGED <<bid, bcontent, bevents>>
       ELSE LET r == FetchByID(bcall.contentType, server[bcall.contentType][bid])
            IN  /\ bevents' = Append(bevents, Event("fetch", bid, {}))
                /\ bcontent' = r.rec
                /\ bpc' = IF r.err = NoError THEN "send" ELSE "tick"
                /\ UNCHANGED bid
    /\ UNCHANGED <<bcall, foundCh, progressCh, closes, received, ticks, rangeDone>>
    /\ UNCHANGED nonBruteVars

\* A switch whose default case scans posts.
BruteProbeDefaultPosts ==
    /\ bpc = "loop"
    /\ bid <= bcall.maxID
    /\ LET k == IF bcall.contentType \in Kinds THEN bcall.contentType ELSE "posts"
           r == FetchByID(k, server[k][bid])
       IN  /\ bevents' = Append(bevents, Event("fetch", bid, {}))
           /\ bcontent' = r.rec
           /\ bpc' = IF r.err = NoError THEN "send" ELSE "tick"
           /\ UNCHANGED bid
    /\ UNCHANGED <<bcall, foundCh, progressCh, closes, received, ticks, rangeDone>>
    /\ UNCHANGED nonBruteVars

\* The head of the loop body: the switch on contentType. A supported type is
\* fetched and the pointer returned is stored in the interface variable
\* content, which is then never equal to nil, so that "err == nil &&
\* content != nil" is "err == nil"; any other type is "continue".
BruteProbe ==
    /\ bpc = "loop"
    /\ bid <= bcall.maxID
    /\ IF bcall.contentType \notin Kinds
       THEN /\ bid' = bid + 1
            /\ UNCHANGED <<bpc, bcontent, bevents>>
       ELSE LET r == FetchByID(bcall.contentType, server[bcall.contentType][bid])
            IN  /\ bevents' = Append(bevents, Event("fetch", bid, {}))
                /\ bcontent' = r.rec
                /\ bpc' = IF r.err = NoError THEN "send" ELSE "tick"
                /\ UNCHANGED bid
    /\ UNCHANGED <<bcall, foundCh, progressCh, closes, received, ticks, rangeDone>>
    /\ UNCHANGED nonBruteVars

\* A loop body with the two sends exchanged: the progress select comes
\* first, "found <- content" after it.
BruteSendFoundAfterTick ==
    /\ bpc = "send"
    /\ IF Len(foundCh) < bcall.foundCap
       THEN /\ foundCh' = Append(foundCh, bcontent)
            /\ UNCHANGED received
       ELSE /\ bcall.foundCap = 0
            /\ bcall.ranging
            /\ received' = Append(received, bcontent)
            /\ UNCHANGED foundCh
    /\ IF Len(progressCh) < bcall.progressCap
       THEN /\ progressCh' = Append(progressCh, bid)
            /\ bevents' = bevents \o <<Event("tick", bid, {}), Event("found", bid, bcontent)>>
       ELSE /\ bevents' = bevents \o <<Event("dropped", bid, {}), Event("found", bid, bcontent)>>
            /\ UNCHANGED progressCh
    /\ bid' = bid + 1
    /\ bpc' = "loop"
    /\ UNCHANGED <<bcall, bcontent, closes, ticks, rangeDone>>
    /\ UNCHANGED nonBruteVars

\* "found <- content": blocks until the buffer has room or, on an unbuffered
\* channel, until the caller receives.
BruteSendFound ==
    /\ bpc = "send"
    /\ IF Len(foundCh) < bcall.foundCap
       THEN /\ foundCh' = Append(foundCh, bcontent)
            /\ UNCHANGED received
       ELSE /\ bcall.foundCap = 0
            /\ bcall.ranging
            /\ received' = Append(received, bcontent)
            /\ UNCHANGED foundCh
    /\ bevents' = Append(bevents, Event("found", bid, bcontent))
    /\ bpc' = "tick"
    /\ UNCHANGED <<bcall, bid, bcontent, progressCh, closes, ticks, rangeDone>>
    /\ UNCHANGED nonBruteVars

\* The progress send without the default case: it waits for room or for a
\* receiver.
BruteTickBlocking ==
    /\ bpc = "tick"
    /\ \/ /\ Len(progressCh) < bcall.progressCap
          /\ progressCh' = Append(progressCh, bid)
          /\ UNCHANGED ticks
       \/ /\ bcall.progressCap = 0
          /\ bcall.listening
          /\ ticks' = Append(ticks, bid)
          /\ UNCHANGED progressCh
    /\ bevents' = Append(bevents, Event("tick", bid, {}))
    /\ bid' = bid + 1
    /\ bpc' = "loop"
    /\ UNCHANGED <<bcall, bcontent, foundCh, closes, received, rangeDone>>
    /\ UNCHANGED nonBruteVars

\* "select { case progress <- id: default: }", then the sleep and id++: the
\* tick goes into the buffer if it has room, to a receiver that is waiting
\* on an unbuffered channel, and is dropped otherwise.
BruteTick ==
    /\ bpc = "tick"
    /\ \/ /\ Len(progressCh) < bcall.progressCap
          /\ progressCh' = Append(progressCh, bid)
          /\ bevents' = Append(bevents, Event("tick", bid, {}))
          /\ UNCHANGED ticks
       \/ /\ bcall.progressCap = 0
          /\ bcall.listening
          /\ ticks' = Append(ticks, bid)
          /\ bevents' = Append(bevents, Event("tick", bid, {}))
          /\ UNCHANGED progressCh
       \/ /\ ~(Len(progressCh) < bcall.progressCap)
          /\ bevents' = Append(bevents, Event("dropped", bid, {}))
          /\ UNCHANGED <<progressCh, ticks>>
    /\ bid' = bid + 1
    /\ bpc' = "loop"
    /\ UNCHANGED <<bcall, bcontent, foundCh, closes, received, rangeDone>>
    /\ UNCHANGED nonBruteVars

\* The loop ends and the function returns: the deferred close(progress) runs.
BruteCloseProgress ==
    /\ bpc = "loop"
    /\ ~(bid <= bcall.maxID)
    /\ closes' = [closes EXCEPT !.progress = @ + 1]
    /\ bevents' = Append(bevents, Event("close progress", 0, {}))
    /\ bpc' = "closing"
    /\ UNCHANGED <<bcall, bid, bcontent, foundCh, progressCh, received, ticks, rangeDone>>
    /\ UNCHANGED nonBruteVars

\* The deferred close(found) runs.
BruteCloseFound ==
    /\ bpc = "closing"
    /\ closes' = [closes EXCEPT !.found = @ + 1]
    /\ bevents' = Append(bevents, Event("close found", 0, {}))
    /\ bpc' = "done"
    /\ UNCHANGED <<bcall, bid, bcontent, foundCh, progressCh, received, ticks, rangeDone>>
    /\ UNCHANGED nonBruteVars

\* The caller's "for item := range found" receives a buffered item.
FoundReceive ==
    /\ bcall.ranging
    /\ ~rangeDone
    /\ foundCh # <<>>
    /\ received' = Append(received, Head(foundCh))
    /\ foundCh' = Tail(foundCh)
    /\ UNCHANGED <<bcall, bpc, bid, bcontent, progressCh, closes, ticks, rangeDone, bevents>>
    /\ UNCHANGED nonBruteVars

\* The caller's range loop ends on the closed, empty found channel.
FoundRangeEnds ==
    /\ bcall.ranging
    /\ ~rangeDone
    /\ foundCh = <<>>
    /\ closes.found > 0
    /\ rangeDone' = TRUE
    /\ UNCHANGED <<bcall, bpc, bid, bcontent, foundCh, progressCh, closes, received, ticks,
                   bevents>>
    /\ UNCHANGED nonBruteVars

\* The caller receives a buffered tick from the progress channel.
ProgressReceive ==
    /\ bcall.listening
    /\ progressCh # <<>>
    /\ ticks' = Append(ticks, Head(progressCh))
    /\ progressCh' = Tail(progressCh)
    /\ UNCHANGED <<bcall, bpc, bid, bcontent, foundCh, closes, received, rangeDone, bevents>>
    /\ UNCHANGED nonBruteVars

(***************************************************************************)
(* config.Config, api.NewClient and the export command (runExport)         *)
(***************************************************************************)

\* A URL is the sequence of its tokens: a scheme with its "://", a host and
\* the tokens of the path.  "%zz" is an escape that is not hexadecimal.
SchemeNames == ("https://" :> "https") @@ ("http://" :> "http") @@ ("ftp://" :> "ftp")
BadEscape == "%zz"
EmptyURL == <<>>
SecureURL == <<"https://", "example.com">>
SlashURL == <<"https://", "example.com", "/">>
FtpURL == <<"ftp://", "example.com">>
BrokenURL == <<"https://", BadEscape>>
URLs == {EmptyURL, SecureURL, SlashURL, FtpURL, BrokenURL}

\* net/url Parse: the scheme, the host that follows it and the path; an
\* escape that is not hexadecimal is an error.
urlParse(rawURL) ==
    LET scheme == IF Len(rawURL) > 0 /\ rawURL[1] \in DOMAIN SchemeNames
                  THEN SchemeNames[rawURL[1]] ELSE ""
        rest == IF scheme # "" THEN Tail(rawURL) ELSE rawURL
        host == IF scheme # "" /\ Len(rest) > 0 /\ rest[1] # "/" THEN rest[1] ELSE ""
        path == IF host # "" THEN Tail(rest) ELSE rest
    IN  IF \E i \in DOMAIN rawURL : rawURL[i] = BadEscape
        THEN [err |-> "invalid URL escape", Scheme |-> "", Host |-> "", Path |-> <<>>]
        ELSE [err |-> NoError, Scheme |-> scheme, Host |-> host, Path |-> path]

\* (*URL).String: the scheme with "://", the host, the path.
urlString(u) ==
    (IF u.Scheme # "" THEN <<CHOOSE t \in DOMAIN SchemeNames : SchemeNames[t] = u.Scheme>>
                      ELSE <<>>)
    \o (IF u.Host # "" THEN <<u.Host>> ELSE <<>>)
    \o u.Path

\* strings.TrimSuffix(s, "/")
TrimSuffix(s) == IF Len(s) > 0 /\ s[Len(s)] = "/" THEN SubSeq(s, 1, Len(s) - 1) ELSE s

DefaultConfig ==
    [URL |-> EmptyURL, Output |-> <<>>, Format |-> "json", BruteForce |-> FALSE,
     MaxID |-> 10000, Concurrent |-> 5, Timeout |-> 30, Retries |-> 3,
     CreateZip |-> FALSE, NoFiles |-> FALSE]

\* Config.Validate: the first check that fails names the error.
Validate(c) ==
    IF c.URL = EmptyURL THEN "URL is required"
    ELSE IF c.Format # "json" /\ c.Format # "markdown" THEN "format must be 'json' or 'markdown'"
    ELSE IF c.MaxID <= 0 THEN "max_id must be greater than 0"
    ELSE IF c.Concurrent <= 0 THEN "concurrent must be greater than 0"
    ELSE IF c.Timeout <= 0 THEN "timeout must be greater than 0"
    ELSE IF c.Retries < 0 THEN "retries must be greater than or equal to 0"
    ELSE NoError

\* Config.GenerateDefaultOutput: an output that was given stays; otherwise
\* it is export/{domain}, the domain taken from the URL.
GenerateDefaultOutput(c) ==
    LET parsedURL == urlParse(c.URL)
        domain == IF parsedURL.Host = "" THEN "wordpress-site" ELSE parsedURL.Host
    IN  IF c.Output # <<>> THEN [cfg |-> c, err |-> NoError]
        ELSE IF c.URL = EmptyURL
             THEN [cfg |-> c, err |-> "URL is required to generate default output path"]
        ELSE IF parsedURL.err # NoError
             THEN [cfg |-> c, err |-> "invalid URL for generating output path"]
        ELSE [cfg |-> [c EXCEPT !.Output = <<"export", domain>>], err |-> NoError]

\* api.NewClient: the URL is parsed, and nothing else about it is checked.
NoClient == [baseURL |-> <<>>, made |-> FALSE, err |-> NoError]

NewClient(c) ==
    LET parsedURL == urlParse(c.URL)
    IN  IF parsedURL.err # NoError
        THEN [baseURL |-> <<>>, made |-> FALSE, err |-> "invalid URL"]
        ELSE [baseURL |-> TrimSuffix(urlString(parsedURL)) \o <<"/wp-json/wp/v2">>,
              made |-> TRUE, err |-> NoError]

\* The configuration files a user may keep: none names the URL, or one does
\* and differs from the defaults in at most one more setting.
ConfigFiles ==
    LET named == [DefaultConfig EXCEPT !.URL = SecureURL]
    IN  {DefaultConfig, named}
        \cup {[named EXCEPT !.Format = f] : f \in {"markdown", "xml"}}
        \cup {[named EXCEPT !.MaxID = n] : n \in {-1, 0, 1}}
        \cup {[named EXCEPT !.Concurrent = n] : n \in {0, 1}}
        \cup {[named EXCEPT !.Timeout = n] : n \in {0}}
        \cup {[named EXCEPT !.Retries = n] : n \in {-1, 0}}
        \cup {[named EXCEPT !.BruteForce = TRUE]}

\* The flags of a command line, each changed flag with its value: --url is
\* required, and at most one more setting is given.
NoFlags == [f \in {} |-> 0]
FlagSets ==
    LET others == {NoFlags}
                  \cup {"format" :> f : f \in {"markdown", "xml"}}
                  \cup {"max-id" :> n : n \in {-1, 0, 1}}
                  \cup {"concurrent" :> n : n \in {0, 1}}
                  \cup {"brute-force" :> TRUE, "output" :> <<"out">>, "zip" :> TRUE,
                        "no-files" :> TRUE, ("zip" :> TRUE) @@ ("no-files" :> TRUE)}
    IN  {("url" :> u) @@ o : u \in URLs, o \in others}

\* cmd.Flags().Changed(name) and the value of a changed flag, else the
\* value the configuration holds.
Changed(flags, name) == name \in DOMAIN flags
Override(flags, name, value) == IF Changed(flags, name) THEN flags[name] ELSE value

\* The "override config with command line flags" block of runExport.
ApplyFlags(c, flags) ==
    [c EXCEPT !.URL = Override(flags, "url", @),
              !.Output = Override(flags, "output", @),
              !.Format = Override(flags, "format", @),
              !.BruteForce = Override(flags, "brute-force", @),
              !.MaxID = Override(flags, "max-id", @),
              !.Concurrent = Override(flags, "concurrent", @),
              !.CreateZip = Override(flags, "zip", @),
              !.NoFiles = Override(flags, "no-files", @)]

\* The requests and stages of runExport, in the order of its code.
Fetches == <<"GetSiteInfo", "GetPosts", "GetPages", "GetMedia", "GetCategories",
             "GetTags", "GetUsers">>
Listings == {Fetches[i] : i \in 2..Len(Fetches)}

\* A stage that runExport invoked, and whether it succeeded.
Stage(name, ok) == [stage |-> name, ok |-> ok]

NoValidation == [cfg |-> DefaultConfig, err |-> NoError, done |-> FALSE]

ExportIdle ==
    run = [pc |-> "idle", file |-> <<>>, flags |-> NoFlags, cfg |-> DefaultConfig,
           idx |-> 0, log |-> <<>>, validated |-> NoValidation, client |-> NoClient,
           ret |-> "none"]

\* runExport returns err.
ExportReturn(r, err) == [r EXCEPT !.pc = "returned", !.ret = err]

\* cfg := config.DefaultConfig(), and config.LoadConfig when a file is
\* there: LoadConfig validates what it read.
ExportLoad ==
    /\ run.pc = "load"
    /\ IF run.file = <<>>
       THEN run' = [run EXCEPT !.pc = "override", !.cfg = DefaultConfig]
       ELSE LET loadedCfg == run.file[1]
                err == Validate(loadedCfg)
                checked == [run EXCEPT !.validated =
                                [cfg |-> loadedCfg, err |-> err, done |-> TRUE]]
            IN  IF err # NoError
                THEN run' = ExportReturn(checked, "failed to load config")
                ELSE run' = [checked EXCEPT !.pc = "override", !.cfg = loadedCfg]
    /\ UNCHANGED nonExportVars

\* The flags override the configuration; --no-files needs --zip; the
\* default output path is generated.
ExportOverride ==
    /\ run.pc = "override"
    /\ LET flagged == ApplyFlags(run.cfg, run.flags)
           out == GenerateDefaultOutput(flagged)
       IN  IF flagged.NoFiles /\ ~flagged.CreateZip
           THEN run' = ExportReturn([run EXCEPT !.cfg = flagged],
                                    "--no-files requires --zip flag")
           ELSE IF out.err # NoError
           THEN run' = ExportReturn([run EXCEPT !.cfg = out.cfg],
                                    "failed to generate default output path")
           ELSE run' = [run EXCEPT !.pc = "validate", !.cfg = out.cfg]
    /\ UNCHANGED nonExportVars

\* cfg.Validate()
ExportValidateBeforeFlags ==
    /\ run.pc = "validate"
    /\ LET before == IF run.file = <<>> THEN [DefaultConfig EXCEPT !.URL = run.cfg.URL]
                                        ELSE [run.file[1] EXCEPT !.URL = run.cfg.URL]
           err == Validate(before)
           checked == [run EXCEPT !.validated = [cfg |-> before, err |-> err, done |-> TRUE]]
       IN  IF err # NoError
           THEN run' = ExportReturn(checked, "invalid configuration")
           ELSE run' = [checked EXCEPT !.pc = "client"]
    /\ UNCHANGED nonExportVars

ExportValidate ==
    /\ run.pc = "validate"
    /\ LET err == Validate(run.cfg)
           checked == [run EXCEPT !.validated = [cfg |-> run.cfg, err |-> err, done |-> TRUE]]
       IN  IF err # NoError
           THEN run' = ExportReturn(checked, "invalid configuration")
           ELSE run' = [checked EXCEPT !.pc = "client"]
    /\ UNCHANGED nonExportVars

\* api.NewClient(cfg), then the exporter and the scanner are created.
ExportNewClient ==
    /\ run.pc = "client"
    /\ LET made == NewClient(run.cfg)
       IN  IF made.err # NoError
           THEN run' = ExportReturn([run EXCEPT !.client = made],
                                    "failed to create API client")
           ELSE run' = [run EXCEPT !.pc = "fetch", !.idx = 1, !.client = made]
    /\ UNCHANGED nonExportVars

\* A direct call of api.NewClient(cfg) with a configuration nobody validated.
NewClientCall ==
    /\ run.pc = "NewClient"
    /\ run' = [run EXCEPT !.pc = "returned", !.client = NewClient(run.cfg),
                          !.ret = NewClient(run.cfg).err]
    /\ UNCHANGED nonExportVars

\* GetSiteInfo and the six listings, one after the other: an error of any
\* of them is returned at once.
ExportFetchIgnoreError ==
    /\ run.pc = "fetch"
    /\ \E ok \in BOOLEAN :
          LET sent == [run EXCEPT !.log = Append(@, Stage(Fetches[run.idx], ok))]
          IN  IF run.idx = Len(Fetches)
              THEN run' = [sent EXCEPT !.pc = "scan"]
              ELSE run' = [sent EXCEPT !.idx = @ + 1]
    /\ UNCHANGED nonExportVars

ExportFetch ==
    /\ run.pc = "fetch"
    /\ \E ok \in BOOLEAN :
          LET sent == [run EXCEPT !.log = Append(@, Stage(Fetches[run.idx], ok))]
          IN  IF ~ok
              THEN run' = ExportReturn(sent, "failed to get")
              ELSE IF run.idx = Len(Fetches)
              THEN run' = [sent EXCEPT !.pc = "scan"]
              ELSE run' = [sent EXCEPT !.idx = @ + 1]
    /\ UNCHANGED nonExportVars

\* if cfg.BruteForce { scanner.ScanForContent(posts, pages, media) }
ExportScan ==
    /\ run.pc = "scan"
    /\ IF run.cfg.BruteForce
       THEN \E ok \in BOOLEAN :
               LET scanned == [run EXCEPT !.log = Append(@, Stage("ScanForContent", ok))]
               IN  IF ~ok
                   THEN run' = ExportReturn(scanned, "brute force scan failed")
                   ELSE run' = [scanned EXCEPT !.pc = "export"]
       ELSE run' = [run EXCEPT !.pc = "export"]
    /\ UNCHANGED nonExportVars

\* exporter.Export(exportData)
ExportExport ==
    /\ run.pc = "export"
    /\ \E ok \in BOOLEAN :
          LET exported == [run EXCEPT !.log = Append(@, Stage("Export", ok))]
          IN  IF ~ok
              THEN run' = ExportReturn(exported, "export failed")
              ELSE run' = [exported EXCEPT !.pc = "zip"]
    /\ UNCHANGED nonExportVars

\* A run that removes the export files whether or not the archive was
\* written.
ExportZipRemoveAnyway ==
    /\ run.pc = "zip"
    /\ IF run.cfg.CreateZip
       THEN \E zipped \in BOOLEAN, removed \in BOOLEAN :
               LET archived == [run EXCEPT !.log = Append(@, Stage("createZipArchive", zipped))]
                   cleared == [archived EXCEPT !.log = Append(@, Stage("RemoveAll", removed))]
                   last == IF run.cfg.NoFiles THEN cleared ELSE archived
               IN  IF run.cfg.NoFiles /\ ~removed
                   THEN run' = ExportReturn(last, "failed to remove export files")
                   ELSE IF ~zipped
                   THEN run' = ExportReturn(last, "failed to create ZIP archive")
                   ELSE run' = ExportReturn(last, NoError)
       ELSE run' = ExportReturn(run, NoError)
    /\ UNCHANGED nonExportVars

\* The ZIP archive, the removal of the files with os.RemoveAll(cfg.Output)
\* when --no-files is set, the summary.
ExportZip ==
    /\ run.pc = "zip"
    /\ IF run.cfg.CreateZip
       THEN \E zipped \in BOOLEAN, removed \in BOOLEAN :
               LET archived == [run EXCEPT !.log = Append(@, Stage("createZipArchive", zipped))]
                   cleared == [archived EXCEPT !.log = Append(@, Stage("RemoveAll", removed))]
               IN  IF ~zipped
                   THEN run' = ExportReturn(archived, "failed to create ZIP archive")
                   ELSE IF ~run.cfg.NoFiles
                   THEN run' = ExportReturn(archived, NoError)
                   ELSE IF ~removed
                   THEN run' = ExportReturn(cleared, "failed to remove export files")
                   ELSE run' = ExportReturn(cleared, NoError)
       ELSE run' = ExportReturn(run, NoError)
    /\ UNCHANGED nonExportVars

(***************************************************************************)
(* Downloader.DownloadMedia and its workers                                *)
(***************************************************************************)
MaxMedia == 2          \* SpecDownload: number of media items of a call
MaxRetries == 1        \* SpecDownload: config.Retries ranges over -1..MaxRetries
MaxDownloaders == 2    \* SpecDownload: config.Concurrent ranges over 0..MaxDownloaders
LiveMedia == 2         \* SpecDownloadLive: number of media items of a call
LiveDownloaders == 2   \* SpecDownloadLive: config.Concurrent ranges over 0..LiveDownloaders

\* The media items of a call: the n-th item has the id n or, as a duplicate
\* of the first item, the id 1, so that two items may name the same target
\* file; the source URL of an item is usable, and that of at most one item
\* is empty or one that url.Parse rejects.
MediaIDs == 1..MaxMedia
MediaItems == [ID : MediaIDs, SourceURL : {"usable", "", BadEscape}]
MediaLists ==
    UNION {{items \in [1..n -> MediaItems] :
               /\ \A i \in 1..n : items[i].ID \in {1, i}
               /\ Cardinality({i \in 1..n : items[i].SourceURL # "usable"}) <= 1}
           : n \in 0..MaxMedia}

\* The media directory before the call: the target file of at most one id
\* is there from an earlier export.
MediaDirs ==
    {files \in [MediaIDs -> {"absent", "old"}] :
        Cardinality({id \in MediaIDs : files[id] = "old"}) <= 1}

\* generateFilename: the id of the item prefixes the name, so that the items
\* of one id share their target file.
generateFilename(media) == media.ID

DownloadIdle == dl = [pc |-> "idle"]

\* DownloadMedia returns (n, err).
DownloadReturn(d, n, err) == [d EXCEPT !.pc = "returned", !.ret = [n |-> n, err |-> err]]

\* Nothing is downloaded when downloads are disabled or no item is given;
\* otherwise the media directory is created and must be an absolute path.
DownloadStart ==
    /\ dl.pc = "called"
    /\ IF ~dl.cfg.DownloadMedia \/ Len(dl.items) = 0
       THEN dl' = DownloadReturn(dl, 0, NoError)
       ELSE \E dir \in {"absolute", "relative", "unwritable"} :
               IF dir = "unwritable"
               THEN dl' = DownloadReturn(dl, 0, "failed to create media directory")
               ELSE IF dir = "relative"
               THEN dl' = DownloadReturn(dl, 0, "media directory path must be absolute")
               ELSE dl' = [dl EXCEPT !.pc = "spawn"]
    /\ UNCHANGED nonDownloadVars

\* for i := 0; i < d.config.Concurrent; i++ { go d.worker(jobs, results) }
DownloadSpawn ==
    /\ dl.pc = "spawn"
    /\ IF dl.spawned < dl.cfg.Concurrent
       THEN dl' = [dl EXCEPT !.spawned = @ + 1, !.idle = @ + 1]
       ELSE dl' = [dl EXCEPT !.pc = "send"]
    /\ UNCHANGED nonDownloadVars

\* for _, media := range mediaItems { jobs <- media }; close(jobs): the
\* channel holds len(mediaItems) items, so that no send blocks.
DownloadSend ==
    /\ dl.pc = "send"
    /\ IF dl.sent < Len(dl.items)
       THEN dl' = [dl EXCEPT !.sent = @ + 1, !.jobs = Append(@, dl.sent + 1),
                             !.at[dl.sent + 1] = "queued"]
       ELSE dl' = [dl EXCEPT !.pc = "collect", !.closed = TRUE]
    /\ UNCHANGED nonDownloadVars

\* for media := range jobs: a worker takes the next item.
DownloadWorkerReceive ==
    /\ dl.pc \in {"spawn", "send", "collect"}
    /\ dl.idle > 0
    /\ dl.jobs # <<>>
    /\ dl' = [dl EXCEPT !.idle = @ - 1, !.jobs = Tail(@), !.at[Head(dl.jobs)] = "taken"]
    /\ UNCHANGED nonDownloadVars

\* for media := range jobs ends on the closed, empty channel.
DownloadWorkerExit ==
    /\ dl.pc \in {"spawn", "send", "collect"}
    /\ dl.idle > 0
    /\ dl.jobs = <<>>
    /\ dl.closed
    /\ dl' = [dl EXCEPT !.idle = @ - 1, !.exited = @ + 1]
    /\ UNCHANGED nonDownloadVars

\* A worker that keeps the outcome of a failed item to itself.
DeliverSuccessOnly(d, i, success) ==
    [d EXCEPT !.at[i] = "done", !.verdict[i] = success,
              !.results = IF success THEN Append(@, success) ELSE @,
              !.idle = @ + 1]

\* downloadMediaItem returned success for item i: results <- success, and
\* the worker is back at its range.
Deliver(d, i, success) ==
    [d EXCEPT !.at[i] = "done", !.verdict[i] = success, !.results = Append(@, success),
              !.idle = @ + 1]

\* downloadMediaItem up to its loop: an empty or unparsable URL is a
\* failure, a target file that exists is a success.
downloadMediaItemOverwrite(i) ==
    /\ dl.pc \in {"spawn", "send", "collect"}
    /\ dl.at[i] = "taken"
    /\ LET media == dl.items[i]
       IN  IF media.SourceURL = "" \/ media.SourceURL = BadEscape
           THEN dl' = Deliver(dl, i, FALSE)
           ELSE dl' = [dl EXCEPT !.at[i] = "loop", !.attempt[i] = 0]
    /\ UNCHANGED nonDownloadVars

downloadMediaItem(i) ==
    /\ dl.pc \in {"spawn", "send", "collect"}
    /\ dl.at[i] = "taken"
    /\ LET media == dl.items[i]
       IN  IF media.SourceURL = "" \/ media.SourceURL = BadEscape
           THEN dl' = Deliver(dl, i, FALSE)
           ELSE IF dl.files[generateFilename(media)] # "absent"
           THEN dl' = Deliver([dl EXCEPT !.existed[i] = TRUE], i, TRUE)
           ELSE dl' = [dl EXCEPT !.at[i] = "loop", !.attempt[i] = 0]
    /\ UNCHANGED nonDownloadVars

\* downloadFile: the request fails or is not answered with 200 and the
\* file is not touched; or the file is created and the copy fails; or the
\* copy succeeds.
FileAfter(before, outcome) ==
    CASE outcome = "fail" -> before
      [] outcome = "partial" -> "partial"
      [] outcome = "ok" -> "new"

\* One round of "for attempt := 0; attempt <= d.config.Retries; attempt++".
downloadFileKeepTrying(i) ==
    /\ dl.pc \in {"spawn", "send", "collect"}
    /\ dl.at[i] = "loop"
    /\ IF dl.attempt[i] <= dl.cfg.Retries
       THEN \E outcome \in {"ok", "fail", "partial"} :
               LET file == generateFilename(dl.items[i])
                   tried == [dl EXCEPT !.requests[i] = Append(@, outcome = "ok"),
                                       !.files[file] = FileAfter(@, outcome)]
               IN  dl' = [tried EXCEPT !.attempt[i] = @ + 1]
       ELSE dl' = Deliver(dl, i, \E n \in DOMAIN dl.requests[i] : dl.requests[i][n])
    /\ UNCHANGED nonDownloadVars

downloadFile(i) ==
    /\ dl.pc \in {"spawn", "send", "collect"}
    /\ dl.at[i] = "loop"
    /\ IF dl.attempt[i] <= dl.cfg.Retries
       THEN \E outcome \in {"ok", "fail", "partial"} :
               LET file == generateFilename(dl.items[i])
                   tried == [dl EXCEPT !.requests[i] = Append(@, outcome = "ok"),
                                       !.files[file] = FileAfter(@, outcome)]
               IN  IF outcome = "ok"
                   THEN dl' = Deliver(tried, i, TRUE)
                   ELSE dl' = [tried EXCEPT !.attempt[i] = @ + 1]
       ELSE dl' = Deliver(dl, i, FALSE)
    /\ UNCHANGED nonDownloadVars

\* for i := 0; i < len(mediaItems); i++ { if <-results { downloaded++ };
\* d.progress.Add(1) }, then d.progress.Finish(): an error of the progress
\* bar is returned with the count so far.
DownloadCollect ==
    /\ dl.pc = "collect"
    /\ IF dl.collected < Len(dl.items)
       THEN /\ dl.results # <<>>
            /\ \E bar \in BOOLEAN :
                  LET counted == [dl EXCEPT !.results = Tail(@), !.collected = @ + 1,
                                            !.downloaded =
                                                IF Head(dl.results) THEN @ + 1 ELSE @]
                  IN  IF bar THEN dl' = counted
                      ELSE dl' = DownloadReturn(counted, counted.downloaded, "progress bar")
       ELSE \E bar \in BOOLEAN :
               dl' = DownloadReturn(dl, dl.downloaded,
                                    IF bar THEN NoError ELSE "progress bar")
    /\ UNCHANGED nonDownloadVars

(***************************************************************************)
(* Spec: ScanForContent                                                    *)
(***************************************************************************)
\* The existing items a caller passes, as their ids: nothing was exported
\* before, or one kind was and one of its items is already known.
ExistingLists ==
    {<<>>} \cup { <<i>> : i \in 1..ScanMaxID }
ExistingInputs ==
    { e \in [Kinds -> ExistingLists] :
        \A j, k \in Kinds : (e[j] # <<>> /\ e[k] # <<>>) => j = k }

\* A site whose single-item endpoint gives the same kind of answer at every id.
FullSite == [i \in IDs |-> Response(200, ObjectBody(i))]
EmptySite == [i \in IDs |-> Response(404, ObjectBody(0))]
BrokenSite == [i \in IDs |-> Response(500, GarbageBody)]
DownSite == [i \in IDs |-> NetworkError]
GarbledSite == [i \in IDs |-> Response(200, GarbageBody)]

\* The sites ScanForContent is run against: one that holds posts and media
\* and fails on pages, and one that is unreachable, garbled or empty.
HoldingSite ==
    [k \in Kinds |-> CASE k = "posts" -> FullSite [] k = "pages" -> BrokenSite
                        [] k = "media" -> FullSite]
FailingSite ==
    [k \in Kinds |-> CASE k = "posts" -> DownSite [] k = "pages" -> GarbledSite
                        [] k = "media" -> EmptySite]
ScanSites == {HoldingSite, FailingSite}

Init ==
    /\ cfg \in [BruteForce : BOOLEAN, MaxID : -1..ScanMaxID, Concurrent : 0..ScanConcurrent]
    /\ existing \in ExistingInputs
    /\ existingIDs = [k \in Kinds |-> {}]
    /\ server \in ScanSites
    /\ mpc = "call"
    /\ kpc = [k \in Kinds |-> "unstarted"]
    /\ result = EmptyResult
    /\ ret = [result |-> EmptyResult, err |-> NoError]
    /\ PoolIdle
    /\ ClientIdle
    /\ RangeIdle
    /\ BruteIdle
    /\ ExportIdle
    /\ DownloadIdle

Next ==
    \/ ScanStart
    \/ \E k \in Kinds : PoolStep(k)
    \/ \E k \in Kinds : KindStoreResult(k)
    \/ \E k \in Kinds : KindAddFound(k)
    \/ ScanReturn

Spec == Init /\ [][Next]_vars

\* runExport after the scan: "posts = append(posts, scanResult.Posts...)" and
\* the same for pages and media, when brute force is on and the scan
\* returned no error.
ExportMerge ==
    /\ mpc = "returned"
    /\ ret.err = NoError
    /\ existing' = IF cfg.BruteForce
                   THEN [k \in Kinds |-> existing[k] \o ListOf(ret.result, k)]
                   ELSE existing
    /\ mpc' = "merged"
    /\ UNCHANGED <<cfg, existingIDs, server, kpc, spawned, nextID, jobs, closed, idle, busy,
                   exited, found, fetches, result, loaded, ret, crashed>>
    /\ UNCHANGED nonScanVars

\* The scan and the merge of its result into what the listing gave: the
\* listed posts are any list of up to MaxListed ids, repeated ids included,
\* the scan has one worker per kind, MaxID covers every id, and the site
\* holds posts and media.
MaxListed == 2
Listed == UNION {[1..n -> IDs] : n \in 0..MaxListed}

InitMerge ==
    /\ cfg = [BruteForce |-> TRUE, MaxID |-> MaxIDBound, Concurrent |-> 1]
    /\ existing \in {e \in [Kinds -> Listed] : e["pages"] = <<>> /\ e["media"] = <<>>}
    /\ existingIDs = [k \in Kinds |-> {}]
    /\ server = HoldingSite
    /\ mpc = "call"
    /\ kpc = [k \in Kinds |-> "unstarted"]
    /\ result = EmptyResult
    /\ ret = [result |-> EmptyResult, err |-> NoError]
    /\ PoolIdle
    /\ ClientIdle
    /\ RangeIdle
    /\ BruteIdle
    /\ ExportIdle
    /\ DownloadIdle

NextMerge ==
    \/ Next
    \/ ExportMerge

SpecMerge == InitMerge /\ [][NextMerge]_vars

\* ScanForContent under the Go scheduler: a goroutine that can take a step
\* is run in the end, and a fetch that was issued returns. The scan is
\* enabled, the site holds posts and media, and the existing items are posts.
InitLive ==
    /\ cfg \in [BruteForce : {TRUE}, MaxID : -1..ScanMaxID, Concurrent : 0..LiveConcurrent]
    /\ existing \in { e \in ExistingInputs : e["pages"] = <<>> /\ e["media"] = <<>> }
    /\ existingIDs = [k \in Kinds |-> {}]
    /\ server = HoldingSite
    /\ mpc = "call"
    /\ kpc = [k \in Kinds |-> "unstarted"]
    /\ result = EmptyResult
    /\ ret = [result |-> EmptyResult, err |-> NoError]
    /\ PoolIdle
    /\ ClientIdle
    /\ RangeIdle
    /\ BruteIdle
    /\ ExportIdle
    /\ DownloadIdle

SpecLive == InitLive /\ [][Next]_vars /\ WF_vars(Next)

(***************************************************************************)
(* SpecPool: one goroutine of ScanForContent on its own                    *)
(***************************************************************************)
InitPool ==
    /\ cfg \in [BruteForce : {TRUE}, MaxID : -1..MaxIDBound, Concurrent : 0..MaxConcurrent]
    /\ existing = [k \in Kinds |-> <<>>]
    /\ \E k \in Kinds :
          /\ kpc = [j \in Kinds |-> IF j = k THEN "make" ELSE "unstarted"]
          /\ \E known \in SUBSET (1..MaxIDBound) :
                existingIDs = [j \in Kinds |-> IF j = k THEN known ELSE {}]
          /\ \E site \in Sites :
                server = [j \in Kinds |-> IF j = k THEN site
                                          ELSE EmptySite]
    /\ mpc = "none"
    /\ result = EmptyResult
    /\ ret = [result |-> EmptyResult, err |-> NoError]
    /\ PoolIdle
    /\ ClientIdle
    /\ RangeIdle
    /\ BruteIdle
    /\ ExportIdle
    /\ DownloadIdle

NextPool ==
    \/ \E k \in Kinds : PoolStep(k)
    \/ \E k \in Kinds : KindStoreResult(k)
    \/ \E k \in Kinds : KindAddFound(k)

SpecPool == InitPool /\ [][NextPool]_vars

(***************************************************************************)
(* SpecClient: one call of an operation of the REST client                 *)
(***************************************************************************)
ScanIdle ==
    /\ cfg = [BruteForce |-> FALSE, MaxID |-> 0, Concurrent |-> 0]
    /\ existing = [k \in Kinds |-> <<>>]
    /\ existingIDs = [k \in Kinds |-> {}]
    /\ server = [k \in Kinds |-> EmptySite]
    /\ mpc = "none"
    /\ kpc = [k \in Kinds |-> "unstarted"]
    /\ result = EmptyResult
    /\ ret = [result |-> EmptyResult, err |-> NoError]
    /\ PoolIdle

InitClient ==
    /\ ScanIdle
    /\ ClientIdle
    /\ RangeIdle
    /\ BruteIdle
    /\ ExportIdle
    /\ DownloadIdle

NextClient ==
    \/ \E k \in Kinds, id \in 1..MaxItemID : GetByID(k, id)
    \/ \E endpoint \in Endpoints : getAllContentStart(endpoint)
    \/ getAllContentPage
    \/ GetSiteInfo

SpecClient == InitClient /\ [][NextClient]_vars

\* Paginated fetches against servers whose answers are fixed in advance,
\* the client's goroutine being scheduled as long as it can run.
NextClientLive ==
    \/ /\ cpc = "idle"
       /\ \E endpoint \in Endpoints, feed \in Feeds : getAllContentStartFeed(endpoint, feed)
    \/ getAllContentFeed

SpecClientLive == InitClient /\ [][NextClientLive]_vars /\ WF_vars(NextClientLive)

(***************************************************************************)
(* SpecRange: one call of ScanSpecificRange                                *)
(***************************************************************************)
\* The scanner is idle; one kind of the site answers in any way, and the
\* caller holds at most one item of that kind from an earlier export.
InitRange ==
    /\ cfg = [BruteForce |-> FALSE, MaxID |-> 0, Concurrent |-> 0]
    /\ existingIDs = [k \in Kinds |-> {}]
    /\ \E k \in Kinds :
          /\ \E l \in {<<>>} \cup { <<i>> : i \in IDs } :
                existing = [j \in Kinds |-> IF j = k THEN l ELSE <<>>]
          /\ \E site \in Sites :
                server = [j \in Kinds |-> IF j = k THEN site ELSE EmptySite]
    /\ mpc = "none"
    /\ kpc = [k \in Kinds |-> "unstarted"]
    /\ result = EmptyResult
    /\ ret = [result |-> EmptyResult, err |-> NoError]
    /\ PoolIdle
    /\ ClientIdle
    /\ RangeIdle
    /\ BruteIdle
    /\ ExportIdle
    /\ DownloadIdle

NextRange ==
    \/ \E contentType \in ContentTypes, startID \in IDs, endID \in 0..LargestID :
          RangeStart(contentType, startID, endID)
    \/ RangeProbe
    \/ RangeReturn

SpecRange == InitRange /\ [][NextRange]_vars

(***************************************************************************)
(* SpecBrute: one call of Client.BruteForceContent                         *)
(***************************************************************************)
\* The responses of the single-item endpoints of a site probed by
\* BruteForceContent: a record, 404 or an error at each id up to MaxBruteID.
BruteSites ==
    { s \in Sites : /\ \A i \in IDs : s[i] \in { Response(200, ObjectBody(i)),
                                                 Response(404, ObjectBody(0)),
                                                 Response(500, GarbageBody) }
                    /\ \A i \in IDs : i > MaxBruteID => s[i] = Response(404, ObjectBody(0)) }

\* The scanner and ScanSpecificRange are idle; BruteForceContent was called
\* in a goroutine of its own.
InitBrute ==
    /\ cfg = [BruteForce |-> FALSE, MaxID |-> 0, Concurrent |-> 0]
    /\ existing = [k \in Kinds |-> <<>>]
    /\ existingIDs = [k \in Kinds |-> {}]
    /\ \E site \in BruteSites : server = [k \in Kinds |-> site]
    /\ mpc = "none"
    /\ kpc = [k \in Kinds |-> "unstarted"]
    /\ result = EmptyResult
    /\ ret = [result |-> EmptyResult, err |-> NoError]
    /\ PoolIdle
    /\ ClientIdle
    /\ RangeIdle
    /\ ExportIdle
    /\ DownloadIdle
    /\ bcall \in BruteCalls
    /\ bpc = "called"
    /\ bid = 0
    /\ bcontent = {}
    /\ foundCh = <<>>
    /\ progressCh = <<>>
    /\ closes = [found |-> 0, progress |-> 0]
    /\ received = <<>>
    /\ ticks = <<>>
    /\ rangeDone = FALSE
    /\ bevents = <<>>

NextBrute ==
    \/ BruteStart
    \/ BruteProbe
    \/ BruteSendFound
    \/ BruteTick
    \/ BruteCloseProgress
    \/ BruteCloseFound
    \/ FoundReceive
    \/ FoundRangeEnds
    \/ ProgressReceive

SpecBrute == InitBrute /\ [][NextBrute]_vars

\* BruteForceContent and its caller under the Go scheduler: a goroutine that
\* can take a step is run in the end, and a fetch that was issued returns.
SpecBruteLive == InitBrute /\ [][NextBrute]_vars /\ WF_vars(NextBrute)

(***************************************************************************)
(* SpecExport: one run of the export command, or one call of NewClient     *)
(***************************************************************************)

\* Everything else is idle.  The command starts with a configuration file
\* or without one and with the flags of its command line; or api.NewClient
\* is called with a configuration that names any of the URLs.
InitExport ==
    /\ ScanIdle
    /\ ClientIdle
    /\ RangeIdle
    /\ BruteIdle
    /\ DownloadIdle
    /\ \/ \E file \in {<<>>} \cup {<<c>> : c \in ConfigFiles}, flags \in FlagSets :
             run = [pc |-> "load", file |-> file, flags |-> flags, cfg |-> DefaultConfig,
                    idx |-> 0, log |-> <<>>, validated |-> NoValidation,
                    client |-> NoClient, ret |-> "none"]
       \/ \E u \in URLs :
             run = [pc |-> "NewClient", file |-> <<>>, flags |-> NoFlags,
                    cfg |-> [DefaultConfig EXCEPT !.URL = u],
                    idx |-> 0, log |-> <<>>, validated |-> NoValidation,
                    client |-> NoClient, ret |-> "none"]

NextExport ==
    \/ ExportLoad
    \/ ExportOverride
    \/ ExportValidate
    \/ ExportNewClient
    \/ NewClientCall
    \/ ExportFetch
    \/ ExportScan
    \/ ExportExport
    \/ ExportZip

SpecExport == InitExport /\ [][NextExport]_vars

(***************************************************************************)
(* SpecDownload: one call of Downloader.DownloadMedia                      *)
(***************************************************************************)

\* Everything else is idle.  DownloadMedia is called with a list of media
\* items; the target file of an id is absent or is there from an earlier
\* export.
InitDownload ==
    /\ ScanIdle
    /\ ClientIdle
    /\ RangeIdle
    /\ BruteIdle
    /\ ExportIdle
    /\ \E c \in [DownloadMedia : BOOLEAN, Concurrent : 0..MaxDownloaders,
                 Retries : -1..MaxRetries],
          items \in MediaLists,
          files \in MediaDirs :
          dl = [pc |-> "called", cfg |-> c, items |-> items, before |-> files,
                files |-> files,
                spawned |-> 0, idle |-> 0, exited |-> 0, sent |-> 0,
                jobs |-> <<>>, closed |-> FALSE, results |-> <<>>,
                at |-> [i \in DOMAIN items |-> "unsent"],
                attempt |-> [i \in DOMAIN items |-> 0],
                requests |-> [i \in DOMAIN items |-> <<>>],
                existed |-> [i \in DOMAIN items |-> FALSE],
                verdict |-> [i \in DOMAIN items |-> FALSE],
                collected |-> 0, downloaded |-> 0,
                ret |-> [n |-> 0, err |-> NoError]]

NextDownload ==
    \/ DownloadStart
    \/ DownloadSpawn
    \/ DownloadSend
    \/ DownloadWorkerReceive
    \/ DownloadWorkerExit
    \/ \E i \in 1..MaxMedia : i \in DOMAIN dl.items /\ downloadMediaItem(i)
    \/ \E i \in 1..MaxMedia : i \in DOMAIN dl.items /\ downloadFile(i)
    \/ DownloadCollect

SpecDownload == InitDownload /\ [][NextDownload]_vars

\* DownloadMedia under the Go scheduler, with downloads enabled: a goroutine
\* that can take a step is run in the end, and a download attempt that was
\* started returns.  The items have ids of their own and usable URLs, and
\* no file is there yet.
InitDownloadLive ==
    /\ ScanIdle
    /\ ClientIdle
    /\ RangeIdle
    /\ BruteIdle
    /\ ExportIdle
    /\ \E c \in [DownloadMedia : {TRUE}, Concurrent : 0..LiveDownloaders,
                 Retries : 0..MaxRetries],
          n \in 0..LiveMedia :
          LET items == [i \in 1..n |-> [ID |-> i, SourceURL |-> "usable"]]
              files == [id \in MediaIDs |-> "absent"]
          IN  dl = [pc |-> "called", cfg |-> c, items |-> items, before |-> files,
                    files |-> files,
                    spawned |-> 0, idle |-> 0, exited |-> 0, sent |-> 0,
                    jobs |-> <<>>, closed |-> FALSE, results |-> <<>>,
                    at |-> [i \in DOMAIN items |-> "unsent"],
                    attempt |-> [i \in DOMAIN items |-> 0],
                    requests |-> [i \in DOMAIN items |-> <<>>],
                    existed |-> [i \in DOMAIN items |-> FALSE],
                    verdict |-> [i \in DOMAIN items |-> FALSE],
                    collected |-> 0, downloaded |-> 0,
                    ret |-> [n |-> 0, err |-> NoError]]

SpecDownloadLive == InitDownloadLive /\ [][NextDownload]_vars /\ WF_vars(NextDownload)

(***************************************************************************)
(* Properties                                                              *)
(***************************************************************************)
NoDuplicates(s) == \A i, j \in DOMAIN s : i # j => s[i] # s[j]

\* The per-kind scan of kind k is over: scanX has returned its slice.
Finished(k) == kpc[k] \in {"returned", "add", "done"}

\* The ids the scan of kind k has to probe.
Unknown(k) == (1..cfg.MaxID) \ existingIDs[k]

\* C1: at every moment of a scan, no single-item request has been issued for
\* an id that is in the known-id set of its kind.
C1_KnownNeverFetched ==
    \A k \in Kinds : \A id \in existingIDs[k] \cap IDs : fetches[k][id] = 0

\* A scan with two workers is over in which a known id within 1..MaxID went
\* through the queue and another id was requested.
C1_Witness ==
    \E k \in Kinds :
       /\ kpc[k] = "done"
       /\ cfg.Concurrent = 2
       /\ \E id \in existingIDs[k] : id <= cfg.MaxID
       /\ \E id \in IDs : fetches[k][id] = 1

\* C2 as stated: no id is requested twice, no id outside 1..MaxID or in the
\* known set is requested, no record is reported twice, and when the scan of
\* a kind is over every unknown id of 1..MaxID has been requested once.
C2_EveryUnknownFetchedOnce ==
    \A k \in Kinds :
       /\ \A id \in IDs : fetches[k][id] <= 1
       /\ \A id \in IDs : fetches[k][id] > 0 => id \in Unknown(k)
       /\ NoDuplicates(found[k])
       /\ Finished(k) => \A id \in Unknown(k) : fetches[k][id] = 1

\* C2 amended: the same, the last part only for a scan with at least one
\* worker (Concurrent >= 1).
C2_EveryUnknownFetchedOnceByWorkers ==
    \A k \in Kinds :
       /\ \A id \in IDs : fetches[k][id] <= 1
       /\ \A id \in IDs : fetches[k][id] > 0 => id \in Unknown(k)
       /\ NoDuplicates(found[k])
       /\ (Finished(k) /\ cfg.Concurrent >= 1) => \A id \in Unknown(k) : fetches[k][id] = 1

\* A scan with two workers is over in which two unknown ids were requested,
\* one of them ending in an error and the other in a record.
C2_Witness ==
    \E k \in Kinds :
       /\ kpc[k] = "done"
       /\ cfg.Concurrent = 2
       /\ Cardinality(Unknown(k)) >= 2
       /\ \E i \in Unknown(k) : i \in Fails(k) /\ fetches[k][i] = 1
       /\ Len(found[k]) >= 1

\* Every id of kind k is answered by a record or by a 404.
RecordOrAbsent(k) ==
    \A i \in IDs : server[k][i] \in {Response(200, ObjectBody(i)), Response(404, ObjectBody(0))}

\* C3: against a site that answers each single-item request with a record
\* or a 404, and with at least one worker, the ids of the list a kind's scan
\* leaves in the ScanResult are exactly the unknown ids of 1..MaxID at which
\* the site holds a record of that kind, each once.
C3_ListIsUnknownHeld ==
    \A k \in Kinds :
       (kpc[k] = "done" /\ cfg.Concurrent >= 1 /\ RecordOrAbsent(k)) =>
          /\ Range(ListOf(result, k)) = Unknown(k) \cap Holds(k)
          /\ NoDuplicates(ListOf(result, k))

\* The scenario of the specification: records at 1 and at a higher id, 1 is
\* known, and the scan leaves exactly the higher id.
C3_Witness ==
    \E k \in Kinds :
       /\ kpc[k] = "done"
       /\ cfg.Concurrent >= 1
       /\ RecordOrAbsent(k)
       /\ existingIDs[k] = {1}
       /\ 1 \in Holds(k)
       /\ ListOf(result, k) = <<2>>
       /\ result.Found = 1

\* C4: the ScanResult ScanForContent returns has Found equal to the sum of
\* the lengths of its three lists.
C4_FoundIsSum ==
    (mpc = "returned" /\ cfg.BruteForce) =>
       ret.result.Found = Len(ret.result.Posts) + Len(ret.result.Pages) + Len(ret.result.Media)

GotByID == cpc = "done" /\ call.op = "GetByID"
Answer == log[Len(log)].answer

\* C6: a single-item fetch whose request is answered with HTTP 404 returns
\* no record and a nil error.
C6_NotFoundIsAbsence ==
    (GotByID /\ ~Answer.neterr /\ Answer.status = 404) =>
       cret.rec = NoRecord /\ cret.err = NoError

\* A fetch of each kind was answered with 404, also with a body that would
\* decode as a record.
C6_Witness ==
    /\ GotByID
    /\ call.target = "media"
    /\ Answer = Response(404, ObjectBody(call.id))

\* The body of the answer does not decode as a JSON object.
Undecodable(body) == body.kind \in {"garbage", "array"}

\* C7: a single-item fetch returns an error and no record when the transport
\* fails, when the status is neither 2xx nor 404, and when the body of a 2xx
\* answer does not decode; a record comes with a nil error only.
C7_ErrorsAreReported ==
    GotByID =>
       /\ ( \/ Answer.neterr
            \/ (Answer.status \notin 200..299 /\ Answer.status # 404)
            \/ (Answer.status \in 200..299 /\ Undecodable(Answer.body)) )
          => (cret.err # NoError /\ cret.rec = NoRecord)
       /\ cret.rec # NoRecord => cret.err = NoError

\* A fetch was answered with HTTP 500 and a body that would decode as the
\* record asked for, and returned an error.
C7_Witness ==
    /\ GotByID
    /\ Answer = Response(500, ObjectBody(call.id))
    /\ cret.err # NoError

\* The call of a paginated fetch is over.
GotAll == cpc = "done" /\ call.op = "GetAll"

\* The answer ends the pagination: HTTP 400, or 200 with an empty list.
EndOfPages(a) ==
    /\ ~a.neterr
    /\ \/ a.status = 400
       \/ a.status = 200 /\ a.body.kind = "array" /\ a.body.items = <<>>

\* The items of the answers to the first n requests, in page order.
RECURSIVE ItemsOfPages(_, _)
ItemsOfPages(l, n) ==
    IF n = 0 THEN <<>> ELSE ItemsOfPages(l, n - 1) \o l[n].answer.body.items

\* C8: a paginated fetch goes on only past pages that are not an empty list
\* or HTTP 400, requests the pages 1, 2, ... in order, and when a page is an
\* empty list or HTTP 400 it returns, with a nil error, the items of the
\* earlier pages in page order.
C8_StopsAtEndOfPages ==
    /\ call.op = "GetAll" =>
          /\ \A n \in 1..Len(log) : log[n].page = n
          /\ \A n \in 1..(Len(log) - 1) : ~EndOfPages(log[n].answer)
          /\ cpc = "paging" => \A n \in 1..Len(log) : ~EndOfPages(log[n].answer)
    /\ (GotAll /\ EndOfPages(Answer)) =>
          /\ cret.err = NoError
          /\ cret.items = ItemsOfPages(log, Len(log) - 1)

\* Pages 1 and 2 held different items and page 3 was answered with HTTP 400.
C8_Witness ==
    /\ GotAll
    /\ Len(log) = 3
    /\ Answer.status = 400
    /\ cret.items = <<1, 2>>

\* The answer aborts the pagination: a transport error, a status other than
\* 200 and 400, or a 200 whose body is not a list.
BadPage(a) ==
    \/ a.neterr
    \/ a.status \notin {200, 400}
    \/ a.status = 200 /\ a.body.kind \in {"garbage", "object"}

\* C9: a paginated fetch in which a page ends in a transport error, a status
\* other than 200 and 400 or an undecodable body returns an error and no
\* item, whatever the earlier pages held.
C9_NoPartialResults ==
    (GotAll /\ BadPage(Answer)) =>
       cret.err # NoError /\ cret.items = <<>>

\* Two pages were read and the third was answered with HTTP 500.
C9_Witness ==
    /\ GotAll
    /\ Len(log) = 3
    /\ allContent = <<2, 1>>
    /\ Answer.status = 500
    /\ cret.items = <<>>

\* C10: GetSiteInfo returns a SiteInfo and a nil error whatever the settings
\* request and the root request end in.
C10_SiteInfoNeverFails ==
    (cpc = "done" /\ call.op = "GetSiteInfo") =>
       cret.err = NoError /\ cret.info # {}

\* The call of GetSiteInfo is over.
GotSiteInfo == cpc = "done" /\ call.op = "GetSiteInfo"

\* The answer cannot give a SiteInfo: a transport error, a status other than
\* 200, or a body that does not decode as a JSON object.
Unusable(a) == a.neterr \/ a.status # 200 \/ Undecodable(a.body)

\* The SiteInfo made of the configured URL and the placeholder name only.
MinimalSiteInfo == SiteInfo(PlaceholderName, "", SiteURL)

\* C11: GetSiteInfo requests the settings endpoint first and the root endpoint
\* only after the settings endpoint failed; when the root endpoint is
\* unusable too, it returns, with a nil error, the SiteInfo made of the
\* configured URL and the placeholder name, every other field empty.
C11_FallbackIsMinimal ==
    GotSiteInfo =>
       /\ log[1].endpoint = "settings"
       /\ Len(log) <= 2
       /\ Len(log) = 2 =>
             /\ log[2].endpoint = "root"
             /\ Unusable(log[1].answer)
             /\ Unusable(log[2].answer) =>
                   cret.err = NoError /\ cret.info = {MinimalSiteInfo}

\* C12: when the settings endpoint answers 404 and the root endpoint answers
\* 200 with a JSON object, GetSiteInfo returns a nil error and a SiteInfo
\* whose Name is the placeholder; when the settings endpoint answers 200, the
\* URL returned is the configured site URL.
C12_FallbackNameAndConfiguredURL ==
    GotSiteInfo =>
       /\ ( /\ Len(log) = 2
            /\ ~log[1].answer.neterr /\ log[1].answer.status = 404
            /\ ~log[2].answer.neterr /\ log[2].answer.status = 200
            /\ log[2].answer.body.kind = "object" )
          => /\ cret.err = NoError
             /\ \A info \in cret.info : info.Name = PlaceholderName
       /\ (~log[1].answer.neterr /\ log[1].answer.status = 200)
          => /\ cret.err = NoError
             /\ \A info \in cret.info : info.URL = SiteURL

\* ScanSpecificRange has returned.
RangeOver == rpc = "returned"

\* C13: ScanSpecificRange called with a content type other than posts, pages
\* and media issues no single-item request, and returns a nil result with
\* an error, whatever startID and endID are.
C13_UnsupportedKindIsRefused ==
    (rcall # NoRange /\ rcall.contentType \notin Kinds) =>
       /\ rlog = <<>>
       /\ RangeOver
       /\ rret.isnil
       /\ rret.err # NoError

\* "widgets" was asked for over a non-empty range of ids the site holds.
C13_Witness ==
    /\ RangeOver
    /\ rcall.contentType = "widgets"
    /\ rcall.startID < rcall.endID
    /\ \E k \in Kinds : rcall.startID \in Holds(k)

\* The ids of lo..hi that are in S, in ascending order.
RECURSIVE Ascending(_, _, _)
Ascending(lo, hi, S) ==
    IF lo > hi THEN <<>>
    ELSE IF hi \in S THEN Append(Ascending(lo, hi - 1, S), hi)
    ELSE Ascending(lo, hi - 1, S)

\* C14: for a supported content type, the requests made so far are those of
\* startID, startID + 1, ... in this order, each id once, known or not; when
\* ScanSpecificRange returns, every id of startID..endID was requested, the
\* error is nil and the records returned are those of the ids of the range at
\* which the site holds a record, in ascending order; with startID > endID
\* no request is made and the slice returned is empty.
C14_RangeIsProbedInOrder ==
    (rcall # NoRange /\ rcall.contentType \in Kinds) =>
       LET k == rcall.contentType
           upto == IF RangeOver THEN rcall.endID ELSE rid - 1
       IN  /\ rlog = Ascending(rcall.startID, upto, IDs)
           /\ rlist = Ascending(rcall.startID, upto, Holds(k))
           /\ RangeOver =>
                 /\ rret = RangeReturned(FALSE, rlist, NoError)
                 /\ rcall.startID > rcall.endID => rret.list = <<>> /\ rlog = <<>>

\* A range of two ids was scanned: the first is the id of an existing item
\* and holds a record, the fetch of the second failed.
C14_Witness ==
    /\ RangeOver
    /\ rcall.contentType \in Kinds
    /\ rlog = <<1, 2>>
    /\ 1 \in Range(existing[rcall.contentType])
    /\ 2 \in Fails(rcall.contentType)
    /\ rret.list = <<1>>

\* C15: with config.BruteForce off, ScanForContent starts no goroutine and no
\* worker and issues no request, and it returns the empty ScanResult (no
\* posts, pages or media, Found = 0) with a nil error, whatever the existing
\* items and MaxID are.
C15_DisabledScansNothing ==
    ~cfg.BruteForce =>
       /\ \A k \in Kinds :
             /\ kpc[k] = "unstarted"
             /\ spawned[k] = 0
             /\ \A id \in IDs : fetches[k][id] = 0
       /\ mpc = "returned" => ret = [result |-> EmptyResult, err |-> NoError]

\* A disabled scan has returned that, enabled, would have found posts: MaxID
\* and Concurrent are positive and the site holds post 1.
C15_Witness ==
    /\ mpc = "returned"
    /\ ~cfg.BruteForce
    /\ cfg.MaxID >= 1
    /\ cfg.Concurrent >= 1
    /\ 1 \in Holds("posts")
    /\ \E k \in Kinds : existing[k] # <<>>

\* C16: a scan with MaxID < 1 does not crash, puts no id on any queue,
\* issues no request, and returns the ScanResult with no findings and a nil
\* error.
C16_NonPositiveMaxIDIsEmptyScan ==
    (cfg.BruteForce /\ cfg.MaxID < 1) =>
       /\ ~crashed
       /\ \A k \in Kinds :
             /\ jobs[k] = <<>>
             /\ \A id \in IDs : fetches[k][id] = 0
       /\ mpc = "returned" => ret = [result |-> EmptyResult, err |-> NoError]

\* No worker of kind k is left: none waits on the queue, none is inside a
\* fetch, and every worker started has returned.
NoWorkerLeft(k) ==
    /\ idle[k] = 0
    /\ \A id \in IDs : busy[k][id] = 0
    /\ exited[k] = spawned[k]

\* C17 as stated: when ScanForContent has returned from a scan, every kind's
\* queue is closed and empty, no worker is left, and the lists returned are
\* the records the workers found.
C17_ReturnsAfterWorkersDrained ==
    (mpc = "returned" /\ cfg.BruteForce) =>
       \A k \in Kinds :
          /\ closed[k]
          /\ jobs[k] = <<>>
          /\ NoWorkerLeft(k)
          /\ ListOf(ret.result, k) = found[k]

\* C17 amended: the same, the queue being empty only for a scan with at least
\* one worker (Concurrent >= 1); with no worker the ids stay on the closed
\* queue.
C17_ReturnsAfterWorkers ==
    (mpc = "returned" /\ cfg.BruteForce) =>
       \A k \in Kinds :
          /\ closed[k]
          /\ cfg.Concurrent >= 1 => jobs[k] = <<>>
          /\ cfg.Concurrent = 0 => Len(jobs[k]) = cfg.MaxID
          /\ NoWorkerLeft(k)
          /\ ListOf(ret.result, k) = found[k]

\* A scan with two workers per kind has returned with records of two kinds.
C17_Witness ==
    /\ mpc = "returned"
    /\ cfg.BruteForce
    /\ \A k \in Kinds : spawned[k] = 2
    /\ Len(ret.result.Posts) >= 1
    /\ Len(ret.result.Media) >= 1

\* C18: a scan with MaxID >= 1 and Concurrent >= 1 that was started returns
\* in the end, whatever the known ids are, and a kind whose known ids cover
\* 1..MaxID comes back with no finding and without a request.
C18_ScanTerminates ==
    (mpc = "wait" /\ cfg.MaxID >= 1 /\ cfg.Concurrent >= 1)
       ~> ( /\ mpc = "returned"
            /\ \A k \in Kinds :
                  Unknown(k) = {} =>
                     /\ ListOf(ret.result, k) = <<>>
                     /\ \A id \in IDs : fetches[k][id] = 0 )

\* A scan with workers has returned in which the known posts cover 1..MaxID
\* and another kind has a finding.
C18_Witness ==
    /\ mpc = "returned"
    /\ cfg.BruteForce
    /\ cfg.MaxID >= 1
    /\ spawned["posts"] >= 1
    /\ Unknown("posts") = {}
    /\ Unknown("media") # {}
    /\ \E k \in Kinds : Len(ListOf(ret.result, k)) >= 1

\* The ids of kind k a scan has to find: a function of the known ids, of
\* MaxID and of the content of the site only.
ToFind(k) == Unknown(k) \cap Holds(k)

\* C19 as stated: whatever the number of workers and their interleaving, the
\* set of ids ScanForContent returns for a kind is the same for the same
\* known ids, MaxID and site content.
C19_SameSetWhateverConcurrency ==
    (mpc = "returned" /\ cfg.BruteForce) =>
       \A k \in Kinds : Range(ListOf(ret.result, k)) = ToFind(k)

\* C19 amended: the same for every number of workers from 1 on and every
\* interleaving; a scan with no worker returns the empty set.
C19_SameSetWhateverInterleaving ==
    (mpc = "returned" /\ cfg.BruteForce) =>
       \A k \in Kinds :
          Range(ListOf(ret.result, k)) = IF cfg.Concurrent >= 1 THEN ToFind(k) ELSE {}

\* A scan with two workers per kind has returned a post although a post is
\* known, and no page.
C19_Witness ==
    /\ mpc = "returned"
    /\ cfg.BruteForce
    /\ cfg.Concurrent = 2
    /\ existingIDs["media"] # {}
    /\ ToFind("posts") # {}
    /\ Range(ret.result.Posts) = ToFind("posts")
    /\ ret.result.Pages = <<>>

\* No Found event follows the close of the found channel and no tick follows
\* the close of the progress channel.
NoSendAfterClose ==
    \A i, j \in DOMAIN bevents :
       i < j => /\ bevents[i].ev = "close found" => bevents[j].ev # "found"
                /\ bevents[i].ev = "close progress" => bevents[j].ev # "tick"

\* C20: BruteForceContent closes neither channel twice nor before its loop
\* is over, never sends on a channel it closed, and has closed both channels
\* once when it has returned, for every content type and maxID; and when the
\* caller ranges over the found channel, BruteForceContent returns and the
\* caller's range loop ends.
C20_ChannelsClosedOnce ==
    /\ [](/\ closes.found <= 1
          /\ closes.progress <= 1
          /\ closes.progress = 1 => bpc \in {"closing", "done"}
          /\ closes.found = 1 => bpc = "done"
          /\ bpc = "done" => closes = [found |-> 1, progress |-> 1]
          /\ NoSendAfterClose)
    /\ ((bpc = "called" /\ bcall.ranging) ~> (bpc = "done" /\ rangeDone))

\* The caller's range loop has ended after it received a Found event and a
\* tick of a scan of two ids over an unbuffered found channel.
C20_Witness ==
    /\ rangeDone
    /\ bpc = "done"
    /\ bcall.maxID = 2
    /\ bcall.foundCap = 0
    /\ Len(received) >= 1
    /\ Len(ticks) >= 1

\* C21: BruteForceContent called with a content type other than posts, pages
\* and media makes no fetch, sends no Found event and no tick, and does
\* nothing but close its two channels.
C21_UnsupportedTypeOnlyCloses ==
    (bcall # NoBruteCall /\ bcall.contentType \notin Kinds) =>
       /\ \A i \in DOMAIN bevents : bevents[i].ev \in {"close progress", "close found"}
       /\ foundCh = <<>> /\ received = <<>>
       /\ progressCh = <<>> /\ ticks = <<>>
       /\ bpc \in {"called", "loop", "closing", "done"}
       /\ bpc = "done" => closes = [found |-> 1, progress |-> 1]

\* "widgets" was scanned up to id 2 on a site holding a post at id 1, and
\* BruteForceContent has returned.
C21_Witness ==
    /\ bpc = "done"
    /\ bcall.contentType = "widgets"
    /\ bcall.maxID = 2
    /\ 1 \in Holds("posts")
    /\ bcall.ranging

\* The ids of the Found events sent so far, in order.
FoundIDs == [i \in DOMAIN SelectSeq(bevents, LAMBDA e : e.ev = "found") |->
                SelectSeq(bevents, LAMBDA e : e.ev = "found")[i].id]

\* C22: for a supported content type, a Found event is sent only for an id
\* at which the fetch returned a record, never for an absent id or a failed
\* fetch, and for no id twice; when BruteForceContent has returned, one was
\* sent for every id of 1..maxID holding a record; and with maxID >= 1 and a
\* progress channel with capacity, a tick was delivered.
C22_OneFoundPerRecord ==
    (bcall # NoBruteCall /\ bcall.contentType \in Kinds) =>
       /\ \A i \in DOMAIN bevents :
             bevents[i].ev = "found" =>
                /\ bevents[i].id \in Holds(bcall.contentType)
                /\ bevents[i].rec = {bevents[i].id}
       /\ NoDuplicates(FoundIDs)
       /\ bpc = "done" =>
             /\ Range(FoundIDs) = Holds(bcall.contentType) \cap (1..bcall.maxID)
             /\ (bcall.maxID >= 1 /\ bcall.progressCap >= 1) =>
                   \E i \in DOMAIN bevents : bevents[i].ev = "tick"

\* The stages runExport invoked up to the i-th one that succeeded.
Succeeded(name, i) ==
    \E j \in 1..(i - 1) : run.log[j] = Stage(name, TRUE)

\* C23: in runExport, a listing (posts, pages, media, categories, tags,
\* users) that returns an error is the last stage the run invokes, and the
\* run returns an error: neither ScanForContent nor Export is invoked after
\* it; and ScanForContent is invoked only after the listings of the posts,
\* the pages and the media succeeded.
C23_ListingErrorEndsTheRun ==
    \A i \in DOMAIN run.log :
       /\ (run.log[i].stage \in Listings /\ ~run.log[i].ok) =>
             /\ run.pc = "returned"
             /\ run.ret \notin {"none", NoError}
             /\ \A j \in DOMAIN run.log :
                   j > i => run.log[j].stage \notin {"ScanForContent", "Export"}
             /\ i = Len(run.log)
       /\ run.log[i].stage = "ScanForContent" =>
             /\ Succeeded("GetPosts", i)
             /\ Succeeded("GetPages", i)
             /\ Succeeded("GetMedia", i)

\* The listing of the tags failed in a run with brute force enabled.
C23_Witness ==
    /\ run.pc = "returned"
    /\ run.cfg.BruteForce
    /\ Len(run.log) = 6
    /\ run.log[6] = Stage("GetTags", FALSE)
    /\ run.ret = "failed to get"

\* What the claim says makes a configuration invalid.
Invalid(c) ==
    \/ c.URL = EmptyURL
    \/ c.Format \notin {"json", "markdown"}
    \/ c.MaxID <= 0
    \/ c.Concurrent <= 0
    \/ c.Timeout <= 0
    \/ c.Retries < 0

\* C24: Config.Validate returns an error exactly when the URL is empty, the
\* format is neither json nor markdown, MaxID <= 0, Concurrent <= 0,
\* Timeout <= 0 or Retries < 0; and runExport, which validates the
\* configuration the flags have overridden before it creates the client,
\* starts no fetch and no scan with MaxID <= 0 or Concurrent <= 0.
C24_ValidateGuardsTheRun ==
    /\ run.validated.done =>
          (run.validated.err # NoError <=> Invalid(run.validated.cfg))
    /\ run.log # <<>> =>
          /\ run.validated = [cfg |-> run.cfg, err |-> NoError, done |-> TRUE]
          /\ run.cfg.MaxID > 0
          /\ run.cfg.Concurrent > 0

\* A valid configuration file enables brute force, --max-id 0 overrides it,
\* and the run ends at the validation.
C24_Witness ==
    /\ run.pc = "returned"
    /\ run.ret = "invalid configuration"
    /\ run.file # <<>>
    /\ run.cfg.BruteForce
    /\ run.cfg.MaxID = 0
    /\ run.validated.cfg = run.cfg
    /\ run.log = <<>>

\* A URL the claim calls valid: http or https, and every escape well formed.
HTTPURL(u) ==
    /\ Len(u) > 0
    /\ u[1] \in {"http://", "https://"}
    /\ \A i \in DOMAIN u : u[i] # BadEscape

\* C25: api.NewClient returns an error and no client when the configured
\* URL is empty or its scheme is not http or https; for a valid URL it
\* returns a client whose base URL is the URL without its trailing slash
\* followed by /wp-json/wp/v2.
C25_NewClientRefusesOtherSchemes ==
    run.client # NoClient =>
       IF HTTPURL(run.cfg.URL)
       THEN /\ run.client.made
            /\ run.client.err = NoError
            /\ run.client.baseURL = TrimSuffix(run.cfg.URL) \o <<"/wp-json/wp/v2">>
       ELSE /\ ~run.client.made
            /\ run.client.err # NoError

\* The items of the call that downloadMediaItem reported as downloaded.
Downloaded == {i \in DOMAIN dl.items : dl.verdict[i]}

\* An attempt of item i succeeded.
Fetched(i) == \E n \in DOMAIN dl.requests[i] : dl.requests[i][n]

\* C26: the downloader makes at most Retries + 1 download attempts for a
\* media item and none after the first one that succeeds; the item counts
\* as downloaded exactly if an attempt succeeded or its file was already
\* there; an item whose attempts all fail counts as not downloaded, and
\* DownloadMedia still returns the count of the others with a nil error.
C26_AttemptsAndCount ==
    /\ \A i \in DOMAIN dl.items :
          /\ Len(dl.requests[i]) <= dl.cfg.Retries + 1
          /\ \A n \in DOMAIN dl.requests[i] : dl.requests[i][n] => n = Len(dl.requests[i])
          /\ dl.at[i] = "done" => (dl.verdict[i] <=> (Fetched(i) \/ dl.existed[i]))
          /\ dl.at[i] # "done" => ~dl.verdict[i]
    /\ dl.downloaded <= Cardinality(Downloaded)
    /\ (dl.pc = "returned" /\ dl.collected = Len(dl.items)) =>
          /\ dl.ret.n = Cardinality(Downloaded)
          /\ dl.ret.err \in {NoError, "progress bar"}
    /\ dl.pc = "returned" =>
          dl.ret.err \in {NoError, "progress bar", "failed to create media directory",
                          "media directory path must be absolute"}

\* Both attempts of the first item failed, the second item was fetched at
\* its second attempt, and DownloadMedia returned 1 and no error.
C26_Witness ==
    /\ dl.pc = "returned"
    /\ dl.ret = [n |-> 1, err |-> NoError]
    /\ dl.cfg.Retries = 1
    /\ Len(dl.items) = 2
    /\ dl.requests[1] = <<FALSE, FALSE>>
    /\ dl.requests[2] = <<FALSE, TRUE>>
    /\ ~dl.verdict[1]
    /\ dl.verdict[2]

\* The target file of item i: downloadMediaItem computes it for an item
\* whose source URL it could parse.
HasTarget(i) == dl.items[i].SourceURL = "usable"

\* C27: for a media item whose target file is already in the media
\* directory the downloader sends no request, leaves the file as it is and
\* counts the item as downloaded; and when downloads are disabled or the
\* list is empty, DownloadMedia returns 0 and a nil error and starts no
\* worker and no request.
C27_ExistingFilesAndNothingToDo ==
    /\ \A i \in DOMAIN dl.items :
          (HasTarget(i) /\ dl.before[generateFilename(dl.items[i])] = "old") =>
             /\ dl.requests[i] = <<>>
             /\ dl.files[generateFilename(dl.items[i])] = "old"
             /\ dl.at[i] = "done" => (dl.verdict[i] /\ dl.existed[i])
             /\ (dl.pc = "returned" /\ dl.collected = Len(dl.items)) => dl.ret.n >= 1
    /\ (~dl.cfg.DownloadMedia \/ dl.items = <<>>) =>
          /\ dl.pc \in {"called", "returned"}
          /\ dl.pc = "returned" => dl.ret = [n |-> 0, err |-> NoError]
          /\ dl.spawned = 0
          /\ \A i \in DOMAIN dl.items : dl.requests[i] = <<>> /\ dl.at[i] = "unsent"

\* The file of the first item was there: the item was counted without a
\* request, while the second item was fetched.
C27_Witness ==
    /\ dl.pc = "returned"
    /\ dl.ret = [n |-> 2, err |-> NoError]
    /\ Len(dl.items) = 2
    /\ dl.before[1] = "old"
    /\ dl.files[1] = "old"
    /\ dl.existed[1]
    /\ dl.requests[1] = <<>>
    /\ dl.requests[2] = <<TRUE>>

\* The sum of the values f takes on the set S.
RECURSIVE SumOver(_, _)
SumOver(f, S) ==
    IF S = {} THEN 0
    ELSE LET x == CHOOSE y \in S : TRUE IN f[x] + SumOver(f, S \ {x})

\* The requests of kind k that were sent and have not returned.
InFlight(k) == SumOver(busy[k], IDs)

\* The goroutine of kind k has left its start loop.
PastSpawn(k) == kpc[k] \in {"send", "wait", "returned", "add", "done"}

\* C28: the scan of a kind starts exactly config.Concurrent workers; at any
\* moment at most config.Concurrent requests of one kind are in flight, and
\* at most three times as many over the three kinds.
C28_ConcurrencyBound ==
    /\ \A k \in Kinds :
          /\ spawned[k] <= cfg.Concurrent
          /\ PastSpawn(k) => spawned[k] = cfg.Concurrent
          /\ InFlight(k) <= cfg.Concurrent
          /\ InFlight(k) + idle[k] + exited[k] = spawned[k]
    /\ InFlight("posts") + InFlight("pages") + InFlight("media") <= 3 * cfg.Concurrent

\* Every worker of every kind is inside a request at the same moment.
C28_Witness ==
    /\ cfg.Concurrent = 1
    /\ \A k \in Kinds : InFlight(k) = cfg.Concurrent /\ PastSpawn(k)

\* The goroutines that have read result.Found and not yet written it back:
\* they are inside "result.Found += len(...)", which holds no lock.
InsideFoundUpdate == {k \in Kinds : kpc[k] = "add"}

\* C29: shared state is written under mutual exclusion only: no two
\* goroutines are inside an unsynchronised write of the same variable at the
\* same moment, and no append to a list of found records is lost.
C29_SharedWritesAreExclusive ==
    /\ Cardinality(InsideFoundUpdate) <= 1
    /\ \A k \in Kinds : \A id \in Holds(k) :
          fetches[k][id] > busy[k][id] => id \in Range(found[k])
    /\ \A k \in Kinds : kpc[k] \in {"add", "done"} => ListOf(result, k) = found[k]

\* The ids the workers of kind k have taken from the channel so far: the
\* producer has sent 1 .. nextID[k] - 1, and the channel still holds the
\* last Len(jobs[k]) of them.
Dequeued(k) == 1..(nextID[k] - Len(jobs[k]) - 1)

\* C30: the work queue of a kind holds the ids of 1..maxID that are not
\* known, each once and in ascending order: a known id is never enqueued,
\* and the ids are dequeued in ascending order.
C30_QueueOmitsKnownIDs ==
    \A k \in Kinds :
       /\ \A i \in DOMAIN jobs[k] : jobs[k][i] \in Unknown(k)
       /\ \A i, j \in DOMAIN jobs[k] : i < j => jobs[k][i] < jobs[k][j]
       /\ \A id \in Dequeued(k) \cap Unknown(k) : fetches[k][id] = 1
       /\ \A id \in IDs \ Dequeued(k) : fetches[k][id] = 0

\* C30 amended: the work queue of a kind receives every id of 1..maxID, the
\* known ids included, each once and in ascending order, and the workers
\* dequeue them in that order; a known id is dropped by the worker that
\* dequeues it, so that the ids requested are the dequeued ids that are not
\* known.
C30_QueueHoldsEveryIDInOrder ==
    \A k \in Kinds :
       /\ \A i \in DOMAIN jobs[k] : jobs[k][i] = nextID[k] - Len(jobs[k]) + i - 1
       /\ \A i \in DOMAIN jobs[k] : jobs[k][i] \in 1..cfg.MaxID
       /\ closed[k] => nextID[k] = cfg.MaxID + 1
       /\ \A id \in Dequeued(k) \cap Unknown(k) : fetches[k][id] = 1
       /\ \A id \in Dequeued(k) \cap existingIDs[k] : fetches[k][id] = 0
       /\ \A id \in IDs \ Dequeued(k) : fetches[k][id] = 0

\* Id 1 is known and id 2 is not: both were enqueued, a worker dropped id 1
\* and requested id 2, and the channel is closed and empty.
C30_Witness ==
    \E k \in Kinds :
       /\ cfg.MaxID = 2
       /\ existingIDs[k] = {1}
       /\ closed[k]
       /\ jobs[k] = <<>>
       /\ fetches[k][1] = 0
       /\ fetches[k][2] = 1

\* The sequence s of ids is strictly ascending.
StrictlyAscending(s) == \A i, j \in DOMAIN s : i < j => s[i] < s[j]

\* C31: with one worker the records of a kind's scan are appended in
\* ascending order of their ids; with two workers or more the list still
\* holds each record once, but its order is that of the returns of the
\* requests, which need not be ascending.
C31_OrderOnlyWithOneWorker ==
    \A k \in Kinds :
       /\ cfg.Concurrent = 1 => StrictlyAscending(found[k])
       /\ cfg.Concurrent >= 2 =>
             /\ NoDuplicates(found[k])
             /\ Range(found[k]) \subseteq Holds(k) \ existingIDs[k]

\* Two workers: the record of id 2 was appended before the record of id 1.
C31_Witness ==
    \E k \in Kinds :
       /\ cfg.Concurrent = 2
       /\ found[k] = <<2, 1>>
       /\ kpc[k] = "done"
       /\ ListOf(result, k) = <<2, 1>>

\* The items whose outcome a worker has sent on the results channel.
Handled == {i \in DOMAIN dl.items : dl.at[i] = "done"}

\* C32, at every moment: an item is in the jobs channel at most once and
\* only while no worker has taken it, one result is sent per handled item
\* and each is collected once, and a call that returns after its collect
\* loop returns the number of the items that were downloaded, which is at
\* most the number of the items.
C32_OneResultPerItem ==
    (dl.cfg.DownloadMedia /\ dl.cfg.Concurrent >= 1 /\ dl.items # <<>>) =>
       /\ NoDuplicates(dl.jobs)
       /\ \A i \in DOMAIN dl.items : dl.at[i] = "queued" <=> i \in Range(dl.jobs)
       /\ \A i \in DOMAIN dl.items : i > dl.sent <=> dl.at[i] = "unsent"
       /\ Len(dl.results) + dl.collected = Cardinality(Handled)
       /\ dl.collected <= Len(dl.items)
       /\ dl.downloaded <= dl.collected
       /\ (dl.pc = "returned" /\ dl.ret.err = NoError) =>
             /\ Handled = DOMAIN dl.items
             /\ dl.collected = Len(dl.items)
             /\ dl.results = <<>>
             /\ dl.ret.n = Cardinality(Downloaded)
             /\ dl.ret.n <= Len(dl.items)

ProducerBlocked(k) ==
    /\ kpc[k] = "send"
    /\ nextID[k] <= cfg.MaxID
    /\ Len(jobs[k]) >= cfg.MaxID

\* The sequence 1, 2, ..., n.
UpTo(n) == [i \in 1..n |-> i]

\* C33: the producer of a kind never finds its channel full, the channel
\* having room for MaxID ids; so a scan without workers (Concurrent = 0,
\* MaxID >= 0) returns in the end, with no finding and no request, every id
\* still in its closed channel.
C33_ProducerNeverBlocks ==
    /\ [](\A k \in Kinds : ~ProducerBlocked(k) /\ Len(jobs[k]) <= LargerOf(cfg.MaxID, 0))
    /\ (mpc = "wait" /\ cfg.Concurrent = 0 /\ cfg.MaxID >= 0)
          ~> ( /\ mpc = "returned"
               /\ ret = [result |-> EmptyResult, err |-> NoError]
               /\ \A k \in Kinds :
                     /\ \A id \in IDs : fetches[k][id] = 0
                     /\ closed[k]
                     /\ jobs[k] = UpTo(cfg.MaxID) )

\* A scan without workers has returned, the one id of each kind unprobed.
C33_Witness ==
    /\ mpc = "returned"
    /\ cfg.BruteForce
    /\ cfg.Concurrent = 0
    /\ cfg.MaxID = 1
    /\ \A k \in Kinds : jobs[k] = <<1>> /\ spawned[k] = 0 /\ fetches[k][1] = 0
    /\ ret.result.Found = 0

\* The found channel is drained: the caller ranges over it, or its buffer
\* holds every record the call can find.
FoundDrained == bcall.ranging \/ bcall.foundCap >= bcall.maxID

\* The call waits in "found <- content": the buffer is full and nobody
\* receives.
FoundUndeliverable ==
    /\ bpc = "send"
    /\ ~(Len(foundCh) < bcall.foundCap)
    /\ ~(bcall.foundCap = 0 /\ bcall.ranging)
    /\ ~(bcall.ranging /\ foundCh # <<>>)

\* The ids whose progress step is behind the call.
Ticked == {bevents[i].id : i \in {j \in DOMAIN bevents : bevents[j].ev \in {"tick", "dropped"}}}

\* C34: BruteForceContent never blocks on the progress channel: every probed
\* id of a supported type gets its progress step, delivered or dropped, a
\* tick is dropped only when the progress buffer has no room, the buffer
\* never exceeds its capacity, the call closes both channels whenever the
\* found channel is drained (whether or not anybody reads the progress
\* channel), and a call that never closes its channels is waiting to deliver
\* a Found event.
C34_ProgressNeverBlocks ==
    /\ [](/\ Len(progressCh) <= bcall.progressCap
          /\ (bcall.contentType \in Kinds /\ bpc \in {"loop", "closing", "done"})
                => Ticked = 1..(bid - 1)
          /\ (\E i \in DOMAIN bevents : bevents[i].ev = "dropped")
                => (bcall.progressCap = 0 \/ progressCh # <<>> \/ ticks # <<>>))
    /\ ((bpc = "called" /\ FoundDrained)
            ~> (bpc = "done" /\ closes = [found |-> 1, progress |-> 1]))
    /\ ((bpc = "called") ~> (bpc = "done" \/ [](FoundUndeliverable /\ closes = [found |-> 0, progress |-> 0])))

\* A caller that does not read the progress channel: ticks of a call with
\* an unbuffered progress channel are dropped, and the call still closes.
C34_Witness ==
    /\ bpc = "done"
    /\ ~bcall.listening
    /\ bcall.progressCap = 0
    /\ bcall.maxID = 2
    /\ closes = [found |-> 1, progress |-> 1]
    /\ {i \in DOMAIN bevents : bevents[i].ev = "dropped"} # {}
    /\ ticks = <<>>

\* The ids of the events of the given names, in the order of the log.
IDsOf(names) == LET sel == SelectSeq(bevents, LAMBDA e : e.ev \in names)
                IN  [i \in DOMAIN sel |-> sel[i].id]

\* The position of the first event of the given name and id, 0 if none.
PositionOf(name, id) ==
    LET at == {i \in DOMAIN bevents : bevents[i].ev = name /\ bevents[i].id = id}
    IN  IF at = {} THEN 0 ELSE CHOOSE i \in at : \A j \in at : i <= j

\* C35: BruteForceContent probes the ids 1, 2, ... one at a time in
\* ascending order: the probes are a prefix of 1..maxID, the Found events
\* and the delivered progress ticks are each strictly ascending in id, the
\* ticks reach the caller in that order, and the Found event of an id is
\* sent after its probe and before its progress step.
C35_AscendingOneAtATime ==
    /\ IDsOf({"fetch"}) \in {UpTo(n) : n \in 0..LargerOf(bcall.maxID, 0)}
    /\ StrictlyAscending(IDsOf({"found"}))
    /\ StrictlyAscending(IDsOf({"tick"}))
    /\ StrictlyAscending(IDsOf({"tick", "dropped"}))
    /\ ticks \o progressCh = IDsOf({"tick"})
    /\ \A id \in 1..MaxBruteID :
          /\ PositionOf("found", id) > 0 =>
                /\ PositionOf("fetch", id) > 0
                /\ PositionOf("fetch", id) < PositionOf("found", id)
          /\ (PositionOf("found", id) > 0 /\ PositionOf("tick", id) > 0)
                => PositionOf("found", id) < PositionOf("tick", id)
          /\ (PositionOf("found", id) > 0 /\ PositionOf("dropped", id) > 0)
                => PositionOf("found", id) < PositionOf("dropped", id)

\* Two records found and both ticks delivered: found 1, tick 1, found 2,
\* tick 2.
C35_Witness ==
    /\ bpc = "done"
    /\ bcall.maxID = 2
    /\ IDsOf({"found"}) = <<1, 2>>
    /\ ticks = <<1, 2>>
    /\ IDsOf({"fetch", "found", "tick"}) = <<1, 1, 1, 2, 2, 2>>

\* The answer is a list with at least one item.
NonEmptyPage(a) ==
    /\ ~a.neterr
    /\ a.status = 200
    /\ a.body.kind = "array"
    /\ a.body.items # <<>>

\* The requests of the log that were answered with a non-empty list.
NonEmptyPages == {n \in DOMAIN log : NonEmptyPage(log[n].answer)}

\* C36: a paginated fetch requests the pages 1, 2, 3, ... of its endpoint
\* one after the other with per_page = 100: every request but the last was
\* answered with a non-empty list, the request of the terminating page is
\* the last one, a fetch that has returned made one request more than it
\* read non-empty pages, and a non-empty page of fewer than 100 items is
\* followed by the request of the next page.
C36_PagesInSequence ==
    call.op = "GetAll" =>
       /\ \A n \in DOMAIN log :
             /\ log[n].page = n
             /\ log[n].perPage = 100
             /\ log[n].endpoint = call.target
       /\ \A n \in 1..(Len(log) - 1) : NonEmptyPage(log[n].answer)
       /\ page = Cardinality(NonEmptyPages) + 1
       /\ cpc = "paging" => Len(log) = Cardinality(NonEmptyPages)
       /\ cpc = "done" =>
             /\ ~NonEmptyPage(Answer)
             /\ Len(log) = Cardinality(NonEmptyPages) + 1
             /\ Len(log) = page
       /\ \A n \in NonEmptyPages :
             Len(log[n].answer.body.items) < 100 => (cpc = "paging" \/ n < Len(log))

\* Two pages of one item each, then an empty list: three requests.
C36_Witness ==
    /\ GotAll
    /\ Len(log) = 3
    /\ NonEmptyPages = {1, 2}
    /\ Len(log[1].answer.body.items) < 100
    /\ Answer.status = 200
    /\ Answer.body = ArrayBody(<<>>)
    /\ cret = Returned({}, allContent, {}, NoError)
    /\ Len(allContent) = 2

\* The pages of the server that end a paginated fetch: an empty list, HTTP
\* 400, another status than 200, an undecodable body or a transport error.
EndingPages == {p \in DOMAIN call.feed : ~NonEmptyPage(call.feed[p])}

\* C37: a paginated fetch returns if the server answers some page with an
\* empty list, HTTP 400, another status than 200, an undecodable body or a
\* transport error, and it returns on the first such page; against a server
\* that answers every page with a non-empty list it never returns: it goes
\* on to the next page for as many pages as the server has.
C37_ReturnsOnlyOnAnEndingPage ==
    /\ ((cpc = "paging" /\ EndingPages # {})
           ~> (cpc = "done" /\ Len(log) \in EndingPages
                            /\ \A p \in EndingPages : Len(log) <= p))
    /\ ((cpc = "paging" /\ EndingPages = {})
           ~> (cpc = "paging" /\ page = MaxPages + 1 /\ Len(log) = MaxPages
                              /\ Len(allContent) = MaxPages))
    /\ [](cpc = "done" => EndingPages # {})

\* Every page of the server was a non-empty list: the fetch has read them
\* all and is about to ask for the next one.
C37_Witness ==
    /\ call.op = "GetAll"
    /\ cpc = "paging"
    /\ EndingPages = {}
    /\ page = MaxPages + 1
    /\ NonEmptyPages = 1..MaxPages

\* The ids the caller passed as existing items of another kind than j and
\* not of j.
KnownElsewhere(j) == UNION {Range(existing[k]) : k \in Kinds \ {j}} \ Range(existing[j])

\* C38: the known ids are kept per kind: the set of a kind holds the ids of
\* the existing items of that kind only, so the workers of a kind probe an
\* id known for another kind like any id unknown to theirs and report the
\* record it holds, and the list stored for a kind is the list found by the
\* workers of that kind, whatever the other kinds found.
C38_KnownIDsPerKind ==
    (cfg.BruteForce /\ mpc \in {"wait", "returned"}) =>
       \A j \in Kinds :
          /\ existingIDs[j] = Range(existing[j])
          /\ KnownElsewhere(j) \cap (1..cfg.MaxID) \subseteq Unknown(j)
          /\ (Finished(j) /\ cfg.Concurrent >= 1) =>
                \A id \in KnownElsewhere(j) \cap (1..cfg.MaxID) :
                   /\ fetches[j][id] = 1
                   /\ id \in Holds(j) => id \in Range(found[j])
          /\ Range(found[j]) \subseteq Holds(j) \ Range(existing[j])
          /\ ListOf(result, j) \in {<<>>, found[j]}
          /\ kpc[j] \in {"add", "done"} => ListOf(result, j) = found[j]
          /\ mpc = "returned" => ListOf(ret.result, j) = found[j]

\* Post 1 was known and not requested; page 1 and media 1 were requested,
\* and media 1 is in the result next to post 2.
C38_Witness ==
    /\ mpc = "returned"
    /\ existing["posts"] = <<1>>
    /\ fetches["posts"][1] = 0
    /\ fetches["media"][1] = 1
    /\ fetches["pages"][1] = 1
    /\ ret.result.Posts = <<2>>
    /\ ret.result.Media = <<1, 2>>

\* What the listing of kind k gave, once the scan's list is appended to it.
ListedOf(k) == SubSeq(existing[k], 1, Len(existing[k]) - Len(ListOf(ret.result, k)))

\* C39: once runExport has appended the lists of the ScanResult to the
\* listed posts, pages and media, a collection whose listing had no repeated
\* id has none either, its size is the listed count plus the number of
\* records the scan found for the kind, and it holds the listed ids and the
\* unknown ids of 1..MaxID at which the site holds a record.
C39_MergedWithoutDuplicates ==
    mpc = "merged" =>
       \A k \in Kinds :
          /\ Range(ListedOf(k)) = existingIDs[k]
          /\ existing[k] = ListedOf(k) \o found[k]
          /\ NoDuplicates(ListedOf(k)) =>
                /\ NoDuplicates(existing[k])
                /\ Len(existing[k]) = Cardinality(existingIDs[k]) + Len(found[k])
                /\ Range(existing[k]) = existingIDs[k] \cup (Unknown(k) \cap Holds(k))

\* Post 1 was listed, the site holds posts 1 and 2, and the merged posts are
\* 1 and 2; the media found are both appended to an empty listing.
C39_Witness ==
    /\ mpc = "merged"
    /\ existingIDs["posts"] = {1}
    /\ Holds("posts") = {1, 2}
    /\ existing["posts"] = <<1, 2>>
    /\ Len(existing["media"]) = 2

\* The positions of the log at which the stage of the given name was run.
StagesOf(name) == {i \in DOMAIN run.log : run.log[i].stage = name}

\* The run is past the check of --no-files against --zip.
PastOverride == run.pc \notin {"idle", "load", "override"}

\* C40: runExport removes the export output only after createZipArchive
\* returned without error in the same run: a configuration with --no-files
\* and without --zip ends the run with an error before any request, export
\* or archive, the removal is the step right after a successful archive of
\* an export that succeeded, and a failed archive ends the run with the
\* files in place.
C40_RemovalOnlyAfterArchive ==
    /\ (PastOverride /\ run.cfg.NoFiles /\ ~run.cfg.CreateZip) =>
          /\ run.pc = "returned"
          /\ run.ret # NoError
          /\ run.log = <<>>
    /\ (PastOverride /\ Changed(run.flags, "no-files") /\ ~Changed(run.flags, "zip")) =>
          /\ run.pc = "returned"
          /\ run.ret \in {"--no-files requires --zip flag", "failed to load config"}
          /\ run.log = <<>>
    /\ \A i \in StagesOf("RemoveAll") :
          /\ run.cfg.NoFiles /\ run.cfg.CreateZip
          /\ i > 1
          /\ run.log[i - 1] = Stage("createZipArchive", TRUE)
          /\ \E j \in 1..(i - 1) : run.log[j] = Stage("Export", TRUE)
          /\ i = Len(run.log)
    /\ \A i \in StagesOf("createZipArchive") :
          ~run.log[i].ok =>
             /\ StagesOf("RemoveAll") = {}
             /\ run.pc = "returned"
             /\ run.ret = "failed to create ZIP archive"
    /\ Cardinality(StagesOf("RemoveAll")) <= 1

\* A run with --zip and --no-files has archived the export and removed the
\* files.
C40_Witness ==
    /\ run.pc = "returned"
    /\ run.ret = NoError
    /\ run.cfg.NoFiles
    /\ Len(run.log) >= 3
    /\ run.log[Len(run.log)] = Stage("RemoveAll", TRUE)
    /\ run.log[Len(run.log) - 1] = Stage("createZipArchive", TRUE)
    /\ run.log[Len(run.log) - 2] = Stage("Export", TRUE)

====
